---- MODULE Spec2Model ----
(***************************************************************************)
(* Bayesian posterior-inference engine of decision-compass                 *)
(* (src/unnamed/part_004): prior parameterisation, evidence aggregation,   *)
(* Monte Carlo sampling, summary statistics and leave-one-out sensitivity. *)
(*                                                                         *)
(* Number representation.  The code computes in IEEE doubles; the model    *)
(* computes exactly, in fixed point:                                       *)
(*   - percentages given by the caller (prior, strength, confidence,       *)
(*     importance, value, weight, correlationFactor*100) are integers;     *)
(*   - alpha, beta and pseudo-counts are integers in units of 1/U;         *)
(*   - a sample is an integer in units of 1/1000 (per mille of 1.0);       *)
(*   - a reported percentage (posterior, interval bound, win percentage)   *)
(*     is an integer in units of 1/PU percent, PU = 10 * NSamples, so that *)
(*     mean(samples) * 100 is exactly the sum of the samples.              *)
(* The inputs are chosen so that every division below is exact.            *)
(***************************************************************************)
EXTENDS Integers, Sequences, FiniteSets, TLC

\* ------------------------------------------------------------------ bounds
\* number of Monte Carlo samples drawn per sampler call in the model
\* (the program draws MONTE_CARLO_SAMPLES = 10000, part_004 line 9)
NSamples == 3
\* longest evidence / evaluation list given to an entry point
MaxItems == 2

\* ------------------------------------------------------- program constants
EVIDENCE_STRENGTH_SCALE == 5
DEFAULT_PRIOR_CONCENTRATION == 10
\* fixed-point denominator of alpha, beta and pseudo-counts
U == 1000
\* MIN_BETA_PARAM = 0.5, in units of 1/U
MIN_BETA_PARAM == 500
\* units per percent of a reported percentage
PU == 10 * NSamples

\* ----------------------------------------------------------------- helpers
Max(a, b) == IF a >= b THEN a ELSE b
Min(a, b) == IF a <= b THEN a ELSE b
Abs(a) == IF a >= 0 THEN a ELSE -a

\* Math.round of the rational n/d (d > 0): floor(n/d + 1/2)
MathRound(n, d) == (2 * n + d) \div (2 * d)

RECURSIVE SumSeq(_)
SumSeq(s) == IF s = <<>> THEN 0 ELSE Head(s) + SumSeq(Tail(s))

\* [...samples].sort((a, b) => a - b)
RECURSIVE InsertAsc(_, _)
InsertAsc(x, s) ==
  IF s = <<>> THEN <<x>>
  ELSE IF x < Head(s) THEN <<x>> \o s
  ELSE <<Head(s)>> \o InsertAsc(x, Tail(s))

RECURSIVE SortAsc(_)
SortAsc(s) == IF s = <<>> THEN <<>> ELSE InsertAsc(Head(s), SortAsc(Tail(s)))

\* ------------------------------------------------------------------ inputs
\* criteria: id, name, importance (percent)
Criteria ==
  << [id |-> "c1", name |-> "Cost",  importance |-> 100],
     [id |-> "c2", name |-> "Risk",  importance |-> 40] >>

\* criterion evaluations the caller may pass; "zz" names no criterion
EvaluationPool ==
  { [criterionId |-> "c1", supportsDecision |-> TRUE,  strength |-> 100, confidence |-> 100],
    [criterionId |-> "c1", supportsDecision |-> FALSE, strength |-> 100, confidence |-> 100],
    [criterionId |-> "c2", supportsDecision |-> TRUE,  strength |-> 30,  confidence |-> 50],
    [criterionId |-> "c2", supportsDecision |-> FALSE, strength |-> 30,  confidence |-> 50],
    [criterionId |-> "zz", supportsDecision |-> TRUE,  strength |-> 30,  confidence |-> 50] }

\* evidence items the caller may pass
EvidencePool ==
  { [id |-> "e1", value |-> 100, weight |-> 100],
    [id |-> "e2", value |-> 30,  weight |-> 50],
    [id |-> "e3", value |-> 0,   weight |-> 100] }

Priors == {1, 50, 90}

\* config after the destructuring defaults of lines 339-343 / 444-449,
\* together with the correlationGroups argument.  sampleCount is the option
\* section 6 of the specification names; 0 stands for "not given".
DefaultConfig ==
  [evidenceStrengthScale |-> EVIDENCE_STRENGTH_SCALE,
   priorConcentration |-> DEFAULT_PRIOR_CONCENTRATION,
   applyCorrelationAdjustment |-> FALSE,
   useQuasiRandom |-> TRUE,
   sampleCount |-> 0]

Setups ==
  { [config |-> DefaultConfig, correlationGroups |-> <<>>],
    [config |-> [DefaultConfig EXCEPT !.evidenceStrengthScale = 2,
                                      !.priorConcentration = 2,
                                      !.useQuasiRandom = FALSE,
                                      !.sampleCount = 2],
     correlationGroups |-> <<>>],
    [config |-> [DefaultConfig EXCEPT !.applyCorrelationAdjustment = TRUE],
     correlationGroups |-> << [ids |-> <<"c1", "e1">>, correlationFactor |-> 50],
                              [ids |-> <<"c2">>, correlationFactor |-> 100] >>] }

\* sequences over S of length 0..n
SeqsUpTo(S, n) == UNION { [1..k -> S] : k \in 0..n }

\* values a drawn sample can take, per mille of 1.0 (0.005 and 0.995)
SampleGrid == {5, 995}

VARIABLES
  entry,              \* "evidence": calculatePosterior, "evaluations": calculatePosteriorFromEvaluations
  prior, config, correlationGroups, evidence, evaluations, criteria,   \* the arguments
  pc,                 \* position in the entry point
  alpha, beta,        \* the Beta parameters being folded (units 1/U)
  idx,                \* number of list items folded so far
  samples,            \* the sampler's return value
  sampledWith,        \* arguments of the sampleBetaStable call of the entry point
  sensIdx,            \* number of evaluations mapped by computeSensitivityAnalysis
  sensitivity,        \* items produced so far (unsorted)
  reducedRuns,        \* the leave-one-out runs made so far
  result,             \* the returned object
  call,               \* "first", or how the second invocation relates to the first
  first,              \* what the first invocation aggregated and returned
  attempts,           \* iterations of the rejection loop of sampleBetaStable
  step,               \* Index: the wizard step shown
  decisionState,      \* Index: the decision state
  draftCriteria,      \* CriteriaWizard: its local criteria list
  draftEvaluations,   \* CriteriaEvaluation: its local evaluations list
  currentIndex,       \* CriteriaEvaluation: index of the criterion shown (0-based)
  pendingAI,          \* CriteriaWizard: the criteria list a running fetchAISuggestions closed over
  uuids,              \* number of ids crypto.randomUUID has handed out
  event,              \* the handler that ran last
  user,               \* useAuth: whether a user is signed in
  saving,             \* useDecisionPersistence: the saving flag
  savePc,             \* position inside saveDecision
  saveArgs,           \* the state and winPercentage given to saveDecision
  db,                 \* the rows of the three tables
  criteriaMapping,    \* saveDecision: old criterion id -> new row id
  returned,           \* what the last saveDecision call returned
  loaded              \* what the last loadDecisions call returned

vars == << entry, prior, config, correlationGroups, evidence, evaluations, criteria,
           pc, alpha, beta, idx, samples, sampledWith, sensIdx, sensitivity,
           reducedRuns, result, call, first, attempts,
           step, decisionState, draftCriteria, draftEvaluations, currentIndex,
           pendingAI, uuids, event,
           user, saving, savePc, saveArgs, db, criteriaMapping, returned, loaded >>

\* the state of the wizard page
wizard == << step, decisionState, draftCriteria, draftEvaluations, currentIndex,
            pendingAI, uuids, event >>

\* the state of the persistence hook and of the database
persistence == << user, saving, savePc, saveArgs, db, criteriaMapping, returned, loaded >>

inputs == << entry, prior, config, correlationGroups, evidence, evaluations, criteria >>

NoResult == [kind |-> "none"]

\* SQL NULL / JavaScript null
Null == [kind |-> "null", value |-> 0]

\* useState initial value of decisionState, Index.tsx lines 26-35; the stored
\* posterior 50 with interval [35, 65] is a literal, not a calculation
InitialDecisionState ==
  [initialConfidence |-> 50, criteria |-> <<>>, criteriaEvaluations |-> <<>>,
   evidence |-> <<>>, posterior |-> [kind |-> "literal"]]

\* the page as mounted, before any handler ran
WizardMounted ==
  /\ step = "decision"
  /\ decisionState = InitialDecisionState
  /\ draftCriteria = <<>> /\ draftEvaluations = <<>> /\ currentIndex = 0
  /\ pendingAI = NoResult
  /\ uuids = 0
  /\ event = "mount"

\* the three tables without rows
EmptyDb == [decisions |-> <<>>, decision_criteria |-> <<>>, decision_evaluations |-> <<>>]

\* the hook before any call
PersistenceIdle ==
  /\ saving = FALSE
  /\ savePc = [at |-> "idle", k |-> 0, decisionId |-> Null] /\ saveArgs = NoResult
  /\ db = EmptyDb
  /\ criteriaMapping = <<>>
  /\ returned = NoResult /\ loaded = NoResult

\* ------------------------------------------------------- pure functions
\* PriorAlpha without the MIN_BETA_PARAM floor
PriorAlpha_NoFloor(p, cfg) == (p * cfg.priorConcentration * U) \div 100

\* lines 349-350 / 452-453 / 603-604
PriorAlpha(p, cfg) == Max(MIN_BETA_PARAM, (p * cfg.priorConcentration * U) \div 100)
PriorBeta(p, cfg) == Max(MIN_BETA_PARAM, ((100 - p) * cfg.priorConcentration * U) \div 100)

\* criteria.find(c => c.id === id): index of the first match, 0 when none
RECURSIVE FindFrom(_, _, _)
FindFrom(cs, id, k) ==
  IF k > Len(cs) THEN 0
  ELSE IF cs[k].id = id THEN k
  ELSE FindFrom(cs, id, k + 1)

FindCriterion(cs, id) == FindFrom(cs, id, 1)

\* ImportanceOf giving an unmatched criterionId no weight
ImportanceOf_UnknownIsZero(cs, id) ==
  IF FindCriterion(cs, id) = 0 THEN 0 ELSE cs[FindCriterion(cs, id)].importance

\* criterion?.importance ?? 50
ImportanceOf(cs, id) ==
  IF FindCriterion(cs, id) = 0 THEN 50 ELSE cs[FindCriterion(cs, id)].importance

\* criterion?.name ?? 'Unknown'
NameOf(cs, id) ==
  IF FindCriterion(cs, id) = 0 THEN "Unknown" ELSE cs[FindCriterion(cs, id)].name

\* computeEvaluationPseudoCount without the importance factor
computeEvaluationPseudoCount_NoImportance(strength, confidence, importance, scale) ==
  [pseudoCount |-> (confidence * scale * U) \div 100,
   evidenceStrength |-> strength]

\* pseudoCount in units 1/U; evidenceStrength in percent
computeEvaluationPseudoCount(strength, confidence, importance, scale) ==
  [pseudoCount |-> (confidence * importance * scale * U) \div 10000,
   evidenceStrength |-> strength]

\* computeCorrelationAdjustedWeight returning the effective count undivided
computeCorrelationAdjustedWeight_NoGroupSize(baseWeight, correlationFactor, groupSize) ==
  IF groupSize <= 1 \/ correlationFactor = 0
  THEN [num |-> baseWeight, den |-> 1]
  ELSE [num |-> baseWeight * (100 + (groupSize - 1) * (100 - correlationFactor)),
        den |-> 100]

\* the adjusted weight as the fraction num/den (correlationFactor in percent)
computeCorrelationAdjustedWeight(baseWeight, correlationFactor, groupSize) ==
  IF groupSize <= 1 \/ correlationFactor = 0
  THEN [num |-> baseWeight, den |-> 1]
  ELSE [num |-> baseWeight * (100 + (groupSize - 1) * (100 - correlationFactor)),
        den |-> 100 * groupSize]

\* index of the last group listing id (Map.set overwrites), 0 when none
RECURSIVE LastGroupWith(_, _, _)
LastGroupWith(groups, id, k) ==
  IF k = 0 THEN 0
  ELSE IF \E j \in 1..Len(groups[k].ids) : groups[k].ids[j] = id THEN k
  ELSE LastGroupWith(groups, id, k - 1)

\* correlationAdjustments.get(id) ?? 1
CorrelationMultiplier(cfg, groups, id) ==
  IF cfg.applyCorrelationAdjustment /\ Len(groups) > 0
       /\ LastGroupWith(groups, id, Len(groups)) > 0
  THEN LET g == groups[LastGroupWith(groups, id, Len(groups))]
       IN computeCorrelationAdjustedWeight(1, g.correlationFactor, Len(g.ids))
  ELSE [num |-> 1, den |-> 1]

\* EvaluationUpdate whose opposing branch forgets the (1 - strength) share
EvaluationUpdate_OpposingDropsRest(a, b, evaluation, cs, cfg, groups) ==
  LET importance == ImportanceOf(cs, evaluation.criterionId)
      r == computeEvaluationPseudoCount(evaluation.strength, evaluation.confidence,
                                        importance, cfg.evidenceStrengthScale)
      m == CorrelationMultiplier(cfg, groups, evaluation.criterionId)
      adjustedPseudoCount == (r.pseudoCount * m.num) \div m.den
      with == (r.evidenceStrength * adjustedPseudoCount) \div 100
      rest == ((100 - r.evidenceStrength) * adjustedPseudoCount) \div 100
  IN IF evaluation.supportsDecision
     THEN [alpha |-> a + with, beta |-> b + rest]
     ELSE [alpha |-> a, beta |-> b + with]

\* one iteration of evaluations.forEach, lines 484-508
EvaluationUpdate(a, b, evaluation, cs, cfg, groups) ==
  LET importance == ImportanceOf(cs, evaluation.criterionId)
      r == computeEvaluationPseudoCount(evaluation.strength, evaluation.confidence,
                                        importance, cfg.evidenceStrengthScale)
      m == CorrelationMultiplier(cfg, groups, evaluation.criterionId)
      adjustedPseudoCount == (r.pseudoCount * m.num) \div m.den
      with == (r.evidenceStrength * adjustedPseudoCount) \div 100
      rest == ((100 - r.evidenceStrength) * adjustedPseudoCount) \div 100
  IN IF evaluation.supportsDecision
     THEN [alpha |-> a + with, beta |-> b + rest]
     ELSE [alpha |-> a + rest, beta |-> b + with]

\* EvidenceUpdate with the share against the hypothesis taken from value
EvidenceUpdate_AgainstFromValue(a, b, item, cfg) ==
  LET pseudoCount == (item.weight * cfg.evidenceStrengthScale * U) \div 100
      support == (item.value * pseudoCount) \div 100
  IN [alpha |-> a + support, beta |-> b + support]

\* one iteration of evidence.forEach, lines 367-381
EvidenceUpdate(a, b, item, cfg) ==
  LET pseudoCount == (item.weight * cfg.evidenceStrengthScale * U) \div 100
      support == (item.value * pseudoCount) \div 100
      against == ((100 - item.value) * pseudoCount) \div 100
  IN [alpha |-> a + support, beta |-> b + against]

\* InternalUpdate applying the correlation multiplier of the full pipeline
InternalUpdate_Adjusted(a, b, evaluation, cs, cfg) ==
  EvaluationUpdate(a, b, evaluation, cs, cfg, correlationGroups)

\* the forEach of calculatePosteriorFromEvaluationsInternal, lines 606-624
InternalUpdate(a, b, evaluation, cs, cfg) ==
  LET importance == ImportanceOf(cs, evaluation.criterionId)
      r == computeEvaluationPseudoCount(evaluation.strength, evaluation.confidence,
                                        importance, cfg.evidenceStrengthScale)
      with == (r.evidenceStrength * r.pseudoCount) \div 100
      rest == ((100 - r.evidenceStrength) * r.pseudoCount) \div 100
  IN IF evaluation.supportsDecision
     THEN [alpha |-> a + with, beta |-> b + rest]
     ELSE [alpha |-> a + rest, beta |-> b + with]

RECURSIVE InternalFold(_, _, _, _, _)
InternalFold(a, b, evals, cs, cfg) ==
  IF evals = <<>> THEN [alpha |-> a, beta |-> b]
  ELSE LET n == InternalUpdate(a, b, Head(evals), cs, cfg)
       IN InternalFold(n.alpha, n.beta, Tail(evals), cs, cfg)

\* mean(samples) * 100, in units 1/PU percent
MeanPct(s) == (SumSeq(s) * PU) \div (10 * Len(s))

\* computeCredibleInterval, lines 637-642 (sample units, per mille)
computeCredibleInterval(s) ==
  LET sorted == SortAsc(s)
      lowerIdx == (Len(s) * 25) \div 1000
      upperIdx == (Len(s) * 975) \div 1000
  IN << sorted[lowerIdx + 1], sorted[upperIdx + 1] >>

\* a sample value (per mille) times 100, in units 1/PU percent
SamplePct(x) == (x * PU) \div 10

\* samples.filter(s => s > 0.5).length / samples.length * 100, units 1/PU percent
WinPercentageRaw(s) ==
  (Cardinality({i \in 1..Len(s) : s[i] > 500}) * 100 * PU) \div Len(s)

\* Math.round of a percentage held in units 1/PU
RoundPct(v) == MathRound(v, PU) * PU

\* InsertByImpact comparing the signed impacts
RECURSIVE InsertByImpact_Signed(_, _)
InsertByImpact_Signed(x, s) ==
  IF s = <<>> THEN <<x>>
  ELSE IF Head(s).impact >= x.impact
       THEN <<Head(s)>> \o InsertByImpact_Signed(x, Tail(s))
       ELSE <<x>> \o s

\* .sort((a, b) => Math.abs(b.impact) - Math.abs(a.impact)), a stable sort
RECURSIVE InsertByImpact(_, _)
InsertByImpact(x, s) ==
  IF s = <<>> THEN <<x>>
  ELSE IF Abs(Head(s).impact) >= Abs(x.impact)
       THEN <<Head(s)>> \o InsertByImpact(x, Tail(s))
       ELSE <<x>> \o s

\* SortByImpact keeping one item of every run of equal |impact|
RECURSIVE SortByImpact_DropsTies(_)
SortByImpact_DropsTies(s) ==
  IF s = <<>> THEN <<>>
  ELSE LET rest == SortByImpact_DropsTies(SubSeq(s, 1, Len(s) - 1))
       IN IF \E i \in 1..Len(rest) : Abs(rest[i].impact) = Abs(s[Len(s)].impact)
          THEN rest
          ELSE InsertByImpact(s[Len(s)], rest)

RECURSIVE SortByImpact(_)
SortByImpact(s) ==
  IF s = <<>> THEN <<>>
  ELSE InsertByImpact(s[Len(s)], SortByImpact(SubSeq(s, 1, Len(s) - 1)))

\* the list the entry point folds
Items == IF entry = "evidence" THEN evidence ELSE evaluations

\* every sequence the sampler can return for n draws
SampleSeqs(n) == [1..n -> SampleGrid]

\* ------------------------------------------------------------------- Init
InitCall ==
  /\ pc = "start"
  /\ alpha = 0 /\ beta = 0 /\ idx = 0
  /\ samples = <<>> /\ sampledWith = <<>>
  /\ sensIdx = 0 /\ sensitivity = <<>> /\ reducedRuns = <<>>
  /\ result = NoResult
  /\ call = "first" /\ first = NoResult
  /\ attempts = 0
  /\ WizardMounted
  /\ user = FALSE /\ PersistenceIdle

Init ==
  /\ entry \in {"evidence", "evaluations"}
  /\ prior \in Priors
  /\ \E s \in Setups : config = s.config /\ correlationGroups = s.correlationGroups
  /\ criteria = Criteria
  /\ IF entry = "evidence"
     THEN evidence \in SeqsUpTo(EvidencePool, MaxItems) /\ evaluations = <<>>
     ELSE evaluations \in SeqsUpTo(EvaluationPool, MaxItems) /\ evidence = <<>>
  /\ InitCall

\* ---------------------------------------------------------------- actions
\* Parameterize without the early branch for the empty list
Parameterize_NoEmptyBranch ==
  /\ pc = "start"
  /\ alpha' = PriorAlpha(prior, config)
  /\ beta' = PriorBeta(prior, config)
  /\ pc' = "fold"
  /\ UNCHANGED << wizard, persistence >>
  /\ UNCHANGED << inputs, idx, samples, sampledWith, sensIdx, sensitivity,
                  reducedRuns, result, call, first, attempts >>

\* lines 345-352 / 451-455: parameterise the prior, branch on the empty list
Parameterize ==
  /\ pc = "start"
  /\ alpha' = PriorAlpha(prior, config)
  /\ beta' = PriorBeta(prior, config)
  /\ pc' = IF Len(Items) = 0 THEN "sample" ELSE "fold"
  /\ UNCHANGED << wizard, persistence >>
  /\ UNCHANGED << inputs, idx, samples, sampledWith, sensIdx, sensitivity,
                  reducedRuns, result, call, first, attempts >>

\* one iteration of evidence.forEach (calculatePosterior)
FoldEvidence ==
  /\ pc = "fold" /\ entry = "evidence" /\ idx < Len(evidence)
  /\ LET n == EvidenceUpdate(alpha, beta, evidence[idx + 1], config)
     IN alpha' = n.alpha /\ beta' = n.beta
  /\ idx' = idx + 1
  /\ pc' = IF idx + 1 = Len(evidence) THEN "sample" ELSE "fold"
  /\ UNCHANGED << wizard, persistence >>
  /\ UNCHANGED << inputs, samples, sampledWith, sensIdx, sensitivity,
                  reducedRuns, result, call, first, attempts >>

\* one iteration of evaluations.forEach (calculatePosteriorFromEvaluations)
FoldEvaluation ==
  /\ pc = "fold" /\ entry = "evaluations" /\ idx < Len(evaluations)
  /\ LET n == EvaluationUpdate(alpha, beta, evaluations[idx + 1], criteria,
                               config, correlationGroups)
     IN alpha' = n.alpha /\ beta' = n.beta
  /\ idx' = idx + 1
  /\ pc' = IF idx + 1 = Len(evaluations) THEN "sample" ELSE "fold"
  /\ UNCHANGED << wizard, persistence >>
  /\ UNCHANGED << inputs, samples, sampledWith, sensIdx, sensitivity,
                  reducedRuns, result, call, first, attempts >>

\* sampleBetaStable(alpha, beta, MONTE_CARLO_SAMPLES, useQuasiRandom), lines
\* 353 / 384 / 456 / 511.  The draws come from Math.random and jStat: any
\* sequence of grid values can be returned.
Sample ==
  /\ pc = "sample"
  /\ samples' \in SampleSeqs(NSamples)
  /\ sampledWith' = << alpha, beta, NSamples, config.useQuasiRandom >>
  /\ pc' = IF entry = "evaluations" /\ Len(evaluations) > 0 THEN "sens" ELSE "return"
  /\ UNCHANGED << wizard, persistence >>
  /\ UNCHANGED << inputs, alpha, beta, idx, sensIdx, sensitivity, reducedRuns,
                  result, call, first, attempts >>

\* LeaveOneOut computing the impact from the clamped full posterior
LeaveOneOut_ClampedFull ==
  /\ pc = "sens" /\ Len(evaluations) > 1 /\ sensIdx < Len(evaluations)
  /\ LET evaluation == evaluations[sensIdx + 1]
         reducedEvaluations ==
           SelectSeq(evaluations, LAMBDA e : e.criterionId # evaluation.criterionId)
         ab == InternalFold(PriorAlpha(prior, config), PriorBeta(prior, config),
                            reducedEvaluations, criteria, config)
         fullPosterior == Max(1 * PU, Min(99 * PU, MeanPct(samples)))
     IN \E s \in SampleSeqs(NSamples) :
          LET reducedPosterior == MeanPct(s)
              impact == fullPosterior - reducedPosterior
          IN /\ sensitivity' = Append(sensitivity,
                   [criterionId |-> evaluation.criterionId,
                    criterionName |-> NameOf(criteria, evaluation.criterionId),
                    impact |-> MathRound(impact * 10, PU),
                    direction |-> IF evaluation.supportsDecision
                                  THEN "supporting" ELSE "opposing"])
             /\ reducedRuns' = Append(reducedRuns,
                   [item |-> sensIdx + 1,
                    evaluations |-> reducedEvaluations,
                    alpha |-> ab.alpha, beta |-> ab.beta,
                    posterior |-> reducedPosterior])
  /\ sensIdx' = sensIdx + 1
  /\ UNCHANGED << wizard, persistence >>
  /\ UNCHANGED << inputs, pc, alpha, beta, idx, samples, sampledWith, result,
                  call, first, attempts >>

\* one element of evaluations.map in computeSensitivityAnalysis, lines 562-583
LeaveOneOut ==
  /\ pc = "sens" /\ Len(evaluations) > 1 /\ sensIdx < Len(evaluations)
  /\ LET evaluation == evaluations[sensIdx + 1]
         reducedEvaluations ==
           SelectSeq(evaluations, LAMBDA e : e.criterionId # evaluation.criterionId)
         ab == InternalFold(PriorAlpha(prior, config), PriorBeta(prior, config),
                            reducedEvaluations, criteria, config)
         fullPosterior == MeanPct(samples)
     IN \E s \in SampleSeqs(NSamples) :
          LET reducedPosterior == MeanPct(s)
              impact == fullPosterior - reducedPosterior
          IN /\ sensitivity' = Append(sensitivity,
                   [criterionId |-> evaluation.criterionId,
                    criterionName |-> NameOf(criteria, evaluation.criterionId),
                    impact |-> MathRound(impact * 10, PU),
                    direction |-> IF evaluation.supportsDecision
                                  THEN "supporting" ELSE "opposing"])
             /\ reducedRuns' = Append(reducedRuns,
                   [item |-> sensIdx + 1,
                    evaluations |-> reducedEvaluations,
                    alpha |-> ab.alpha, beta |-> ab.beta,
                    posterior |-> reducedPosterior])
  /\ sensIdx' = sensIdx + 1
  /\ UNCHANGED << wizard, persistence >>
  /\ UNCHANGED << inputs, pc, alpha, beta, idx, samples, sampledWith, result,
                  call, first, attempts >>

\* the returned object: lines 354-363, 387-399, 457-469, 514-539
\* (percentages in units 1/PU; impact in tenths of a percent).  The
\* convergenceDiagnostic field is computeConvergenceDiagnostic(samples), a
\* function of the samples field alone, and is not carried in the record.
ReturnValue ==
  LET posterior == MeanPct(samples)
      ci == computeCredibleInterval(samples)
      scaled == [i \in 1..Len(samples) |-> SamplePct(samples[i])]
      base ==
        IF Len(Items) = 0
        THEN [posterior |-> posterior,
              credibleInterval |-> << SamplePct(ci[1]), SamplePct(ci[2]) >>,
              samples |-> scaled]
        ELSE [posterior |-> Max(1 * PU, Min(99 * PU, posterior)),
              credibleInterval |-> << Max(0, SamplePct(ci[1])),
                                      Min(100 * PU, SamplePct(ci[2])) >>,
              samples |-> scaled]
  IN IF entry = "evidence"
     THEN [kind |-> "PosteriorResult"] @@ base
     ELSE [kind |-> "EvaluationPosteriorResult",
           winPercentage |-> IF Len(evaluations) = 0
                             THEN WinPercentageRaw(samples)
                             ELSE RoundPct(WinPercentageRaw(samples)),
           sensitivityAnalysis |-> SortByImpact(sensitivity)] @@ base

Return ==
  /\ \/ pc = "return"
     \/ pc = "sens" /\ (Len(evaluations) <= 1 \/ sensIdx = Len(evaluations))
  /\ result' = ReturnValue
  /\ pc' = "done"
  /\ UNCHANGED << wizard, persistence >>
  /\ UNCHANGED << inputs, alpha, beta, idx, samples, sampledWith, sensIdx,
                  sensitivity, reducedRuns, call, first, attempts >>

Next ==
  \/ Parameterize
  \/ FoldEvidence
  \/ FoldEvaluation
  \/ Sample
  \/ LeaveOneOut
  \/ Return

Spec == Init /\ [][Next]_vars

\* ---------------------------------------------- two invocations in a row
\* the caller invokes the same entry point again with the same arguments
Reinvoke ==
  /\ pc = "done" /\ call = "first"
  /\ first' = [alpha |-> alpha, beta |-> beta, result |-> result]
  /\ call' = "repeat"
  /\ pc' = "start"
  /\ alpha' = 0 /\ beta' = 0 /\ idx' = 0
  /\ samples' = <<>> /\ sampledWith' = <<>>
  /\ sensIdx' = 0 /\ sensitivity' = <<>> /\ reducedRuns' = <<>>
  /\ result' = NoResult
  /\ UNCHANGED << wizard, persistence >>
  /\ UNCHANGED << inputs, attempts >>

\* the evaluation a caller adds to a non-empty evaluation set
StrongSupport(id) ==
  [criterionId |-> id, supportsDecision |-> TRUE, strength |-> 100, confidence |-> 100]

\* the caller invokes calculatePosteriorFromEvaluations again with one
\* strongly supporting evaluation added, correlation adjustment off
InvokeExtended ==
  /\ pc = "done" /\ call = "first"
  /\ entry = "evaluations" /\ Len(evaluations) > 0
  /\ ~config.applyCorrelationAdjustment
  /\ \E id \in {"c1", "c2", "zz"} :
        evaluations' = Append(evaluations, StrongSupport(id))
  /\ first' = [alpha |-> alpha, beta |-> beta, result |-> result]
  /\ call' = "extended"
  /\ pc' = "start"
  /\ alpha' = 0 /\ beta' = 0 /\ idx' = 0
  /\ samples' = <<>> /\ sampledWith' = <<>>
  /\ sensIdx' = 0 /\ sensitivity' = <<>> /\ reducedRuns' = <<>>
  /\ result' = NoResult
  /\ UNCHANGED << wizard, persistence >>
  /\ UNCHANGED << entry, prior, config, correlationGroups, evidence, criteria,
                  attempts >>

InitTwice ==
  /\ entry \in {"evidence", "evaluations"}
  /\ prior \in {50, 90}
  /\ \E s \in Setups : config = s.config /\ correlationGroups = s.correlationGroups
  /\ criteria = Criteria
  /\ IF entry = "evidence"
     THEN evidence \in SeqsUpTo(EvidencePool, 1) /\ evaluations = <<>>
     ELSE evaluations \in SeqsUpTo(EvaluationPool, 1) /\ evidence = <<>>
  /\ InitCall

NextTwice == Next \/ Reinvoke \/ InvokeExtended

SpecTwice == InitTwice /\ [][NextTwice]_vars

\* ------------------------------------------------ convergence diagnostics
\* longest sample sequence handed to the diagnostics
MaxDiagLen == 10

\* values of a sample in the diagnostics, in hundredths (0.40, 0.42, 0.67)
DiagGrid == {40, 42, 67}

\* GEWEKE_THRESHOLD = 1.96 as a fraction
GEWEKE_THRESHOLD == [num |-> 49, den |-> 25]

\* a JavaScript number that is not finite
NaN == [kind |-> "NaN", value |-> 0]
Infinity == [kind |-> "Infinity", value |-> 0]
NegInfinity == [kind |-> "-Infinity", value |-> 0]
Finite(v) == [kind |-> "finite", value |-> v]

\* floor of the square root of q, lo*lo <= q < hi*hi
RECURSIVE ISqrtIn(_, _, _)
ISqrtIn(lo, hi, q) ==
  IF hi - lo <= 1 THEN lo
  ELSE LET mid == (lo + hi) \div 2
       IN IF mid * mid <= q THEN ISqrtIn(mid, hi, q) ELSE ISqrtIn(lo, mid, q)

ISqrt(q) == ISqrtIn(0, 46340, q)

\* Math.round(scale * root) for root = sign * sqrt(num/den), den > 0
RoundRoot(sign, num, den, scale) ==
  LET k == 4 * scale * scale
      \* floor and ceiling of k * num / den
      lower == k * (num \div den) + (k * (num % den)) \div den
      upper == IF (k * (num % den)) % den = 0 THEN lower ELSE lower + 1
  IN IF sign = 0 \/ num = 0 THEN 0
     ELSE IF sign > 0 THEN (ISqrt(lower) + 1) \div 2
     ELSE -((ISqrt(upper - 1) + 1) \div 2)

SumSquares(d) == SumSeq([i \in 1..Len(d) |-> d[i] * d[i]])

\* variance(samples) as a fraction (units 1/10000); 0 below two samples
variance(s) ==
  LET n == Len(s)
  IN IF n < 2 THEN [num |-> 0, den |-> 1]
     ELSE [num |-> n * SumSquares(s) - SumSeq(s) * SumSeq(s), den |-> n * (n - 1)]

\* z of computeGewekeDiagnostic before the isNaN test: a non-finite number,
\* or finite with the given sign and square num/den
GewekeZ(s) ==
  LET n == Len(s)
      firstN == n \div 10
      lastN == n \div 2
      firstSamples == SubSeq(s, 1, firstN)
      lastSamples == SubSeq(s, n - lastN + 1, n)
  IN IF firstN = 0 \/ lastN = 0
     THEN [kind |-> "NaN", sign |-> 0, num |-> 0, den |-> 1]    \* mean of an empty slice is 0/0
     ELSE LET var1 == variance(firstSamples)
              var2 == variance(lastSamples)
              \* (mean1 - mean2) * firstN * lastN
              diff == SumSeq(firstSamples) * lastN - SumSeq(lastSamples) * firstN
              \* (se1*se1 + se2*se2) * var1.den * var2.den * firstN * lastN
              seSq == var1.num * var2.den * lastN + var2.num * var1.den * firstN
          IN IF seSq = 0
             THEN [kind |-> IF diff = 0 THEN "NaN"
                            ELSE IF diff > 0 THEN "Infinity" ELSE "-Infinity",
                   sign |-> 0, num |-> 0, den |-> 1]
             ELSE [kind |-> "finite",
                   sign |-> IF diff > 0 THEN 1 ELSE IF diff < 0 THEN -1 ELSE 0,
                   num |-> diff * diff * var1.den * var2.den,
                   den |-> firstN * lastN * seSq]

\* computeGewekeDiagnostic returning z as it is
computeGewekeDiagnostic_NoNaNCheck(s) == GewekeZ(s)

\* return isNaN(z) ? 0 : z
computeGewekeDiagnostic(s) ==
  IF GewekeZ(s).kind = "NaN"
  THEN [kind |-> "finite", sign |-> 0, num |-> 0, den |-> 1]
  ELSE GewekeZ(s)

\* n * (samples[i] - sampleMean)
Deviations(s) == [i \in 1..Len(s) |-> Len(s) * s[i] - SumSeq(s)]

LagProducts(d) == SumSeq([i \in 1..(Len(d) - 1) |-> d[i] * d[i + 1]])

computeEffectiveSampleSize(s) ==
  LET n == Len(s)
      d == Deviations(s)
      B == SumSquares(d)          \* n*n*(n-1)*sampleVar
      A == LagProducts(d)         \* autoCorr = A / B
  IN IF n < 10 THEN Finite(n)
     ELSE IF B = 0 THEN Finite(n)
     ELSE IF 2 * A <= -B THEN Infinity                          \* rho = -0.5: n / 0
     ELSE IF 100 * A >= 99 * B THEN Finite(Max(1, MathRound(100 * n, 298)))   \* rho = 0.99
     ELSE Finite(Max(1, MathRound(n * B, B + 2 * A)))

\* Math.round(Math.sqrt(sampleVar / ess) * 1000), thousandths
computeMCError(s, ess) ==
  LET v == variance(s)
  IN IF ess.kind = "Infinity" THEN Finite(0)
     ELSE IF ess.value = 0 THEN NaN                             \* 0 / 0
     ELSE Finite(RoundRoot(1, v.num, v.den * ess.value, 10))

\* computeConvergenceDiagnostic testing the rounded score against the threshold
computeConvergenceDiagnostic_FromReported(s) ==
  LET gewekeZ == computeGewekeDiagnostic(s)
      ess == computeEffectiveSampleSize(s)
      score == IF gewekeZ.kind = "finite"
               THEN Finite(RoundRoot(gewekeZ.sign, gewekeZ.num, gewekeZ.den, 100))
               ELSE [kind |-> gewekeZ.kind, value |-> 0]
  IN [kind |-> "diagnostic",
      gewekeZ |-> gewekeZ,
      gewekeZScore |-> score,
      isConverged |-> /\ score.kind = "finite"
                      /\ Abs(score.value) * GEWEKE_THRESHOLD.den
                           < 100 * GEWEKE_THRESHOLD.num,
      effectiveSampleSize |-> ess,
      mcError |-> computeMCError(s, ess)]

computeConvergenceDiagnostic(s) ==
  LET gewekeZ == computeGewekeDiagnostic(s)
      ess == computeEffectiveSampleSize(s)
  IN [kind |-> "diagnostic",
      gewekeZ |-> gewekeZ,
      \* Math.round(gewekeZ * 100) / 100, hundredths
      gewekeZScore |-> IF gewekeZ.kind = "finite"
                       THEN Finite(RoundRoot(gewekeZ.sign, gewekeZ.num, gewekeZ.den, 100))
                       ELSE [kind |-> gewekeZ.kind, value |-> 0],
      \* Math.abs(gewekeZ) < GEWEKE_THRESHOLD
      isConverged |-> /\ gewekeZ.kind = "finite"
                      /\ gewekeZ.num * GEWEKE_THRESHOLD.den * GEWEKE_THRESHOLD.den
                           < gewekeZ.den * GEWEKE_THRESHOLD.num * GEWEKE_THRESHOLD.num,
      effectiveSampleSize |-> ess,
      mcError |-> computeMCError(s, ess)]

InitDiag ==
  /\ entry = "diagnostic"
  /\ prior = 50 /\ config = DefaultConfig /\ correlationGroups = <<>>
  /\ evidence = <<>> /\ evaluations = <<>> /\ criteria = <<>>
  /\ pc = "diag"
  /\ alpha = 0 /\ beta = 0 /\ idx = 0
  /\ samples \in SeqsUpTo(DiagGrid, MaxDiagLen)
  /\ sampledWith = <<>>
  /\ sensIdx = 0 /\ sensitivity = <<>> /\ reducedRuns = <<>>
  /\ result = NoResult
  /\ call = "first" /\ first = NoResult
  /\ attempts = 0
  /\ WizardMounted
  /\ user = FALSE /\ PersistenceIdle

Diagnose ==
  /\ pc = "diag"
  /\ result' = computeConvergenceDiagnostic(samples)
  /\ pc' = "diagnosed"
  /\ UNCHANGED << wizard, persistence >>
  /\ UNCHANGED << inputs, alpha, beta, idx, samples, sampledWith, sensIdx,
                  sensitivity, reducedRuns, call, first, attempts >>

NextDiag == Diagnose

SpecDiag == InitDiag /\ [][NextDiag]_vars

\* ------------------------------------------------------ sampleBetaStable
\* n, the number of samples asked of sampleBetaStable
DrawCount == 2

\* maxAttempts = n * 100
ATTEMPTS_PER_SAMPLE == 100

\* (alpha, beta) handed to sampleBetaStable (units 1/U): two moderate pairs,
\* then pairs with a parameter above 1000 or below 0.1
SamplerParams ==
  { << 5 * U, 5 * U >>, << 1000 * U, 1000 * U >>,
    << 2000 * U, U \div 2 >>, << U \div 2, 2000 * U >>,
    << 2000 * U, 2000 * U >>, << U + 1, 5000 * U >>,
    << U \div 20, U \div 20 >>, << U, 2000 * U >> }

\* a number in [0, 1] as a fraction
PerMille(x) == [num |-> x, den |-> 1000]

\* values of Math.random(), which lies in [0, 1)
Proposals == { PerMille(0), PerMille(5), PerMille(995) }

\* values of jStat.beta.inv / jStat.beta.sample
LibraryDraws == { PerMille(5), PerMille(995) }

\* the test of line 161
Moderate(a, b) ==
  a >= U \div 10 /\ b >= U \div 10 /\ a <= 1000 * U /\ b <= 1000 * U

\* lines 178-180
Mode(a, b) ==
  IF a > U /\ b > U THEN [num |-> a - U, den |-> a + b - 2 * U]
  ELSE IF a >= b THEN [num |-> 99, den |-> 100]
  ELSE [num |-> 1, den |-> 100]

\* logBetaPdf guarding only against x outside [0, 1]
logBetaPdf_ClosedGuard(x, a, b) ==
  IF x.num < 0 \/ x.num > x.den THEN "-Infinity" ELSE "finite"

\* whether the log density is finite
logBetaPdf(x, a, b) ==
  IF x.num <= 0 \/ x.num >= x.den THEN "-Infinity" ELSE "finite"

\* outcomes of Math.log(Math.random()) < logPdfX - logPdfMode: with
\* logPdfX = -Infinity the right side is -Infinity or NaN and the test fails
Acceptance(x, a, b) ==
  IF logBetaPdf(x, a, b) = "-Infinity" THEN {FALSE} ELSE BOOLEAN

InitSampler ==
  /\ entry = "sampleBetaStable"
  /\ prior = 50 /\ correlationGroups = <<>>
  /\ config \in {DefaultConfig, [DefaultConfig EXCEPT !.useQuasiRandom = FALSE]}
  /\ evidence = <<>> /\ evaluations = <<>> /\ criteria = <<>>
  /\ pc = "sampling"
  /\ \E p \in SamplerParams : alpha = p[1] /\ beta = p[2]
  /\ idx = 0
  /\ samples = <<>> /\ sampledWith = <<>>
  /\ sensIdx = 0 /\ sensitivity = <<>> /\ reducedRuns = <<>>
  /\ result = NoResult
  /\ call = "first" /\ first = NoResult
  /\ attempts = 0
  /\ WizardMounted
  /\ user = FALSE /\ PersistenceIdle

\* lines 161-174: inverse CDF of the quasi-random sequence, or direct draws
StandardSampling ==
  /\ pc = "sampling" /\ Moderate(alpha, beta)
  /\ samples' \in [1..DrawCount -> LibraryDraws]
  /\ pc' = "sampled"
  /\ UNCHANGED << wizard, persistence >>
  /\ UNCHANGED << inputs, alpha, beta, idx, sampledWith, sensIdx, sensitivity,
                  reducedRuns, result, call, first, attempts >>

\* one iteration of the loop of lines 187-198
RejectionStep ==
  /\ pc = "sampling" /\ ~Moderate(alpha, beta)
  /\ Len(samples) < DrawCount /\ attempts < DrawCount * ATTEMPTS_PER_SAMPLE
  /\ attempts' = attempts + 1
  /\ \E x \in Proposals : \E accepted \in Acceptance(x, alpha, beta) :
       samples' = IF accepted THEN Append(samples, x) ELSE samples
  /\ UNCHANGED << wizard, persistence >>
  /\ UNCHANGED << inputs, pc, alpha, beta, idx, sampledWith, sensIdx,
                  sensitivity, reducedRuns, result, call, first >>

\* one iteration of the loop of lines 201-208: a direct draw, or the mode
\* when the draw throws
FallbackStep ==
  /\ pc = "sampling" /\ ~Moderate(alpha, beta)
  /\ attempts >= DrawCount * ATTEMPTS_PER_SAMPLE
  /\ Len(samples) < DrawCount
  /\ \E x \in LibraryDraws \cup {Mode(alpha, beta)} : samples' = Append(samples, x)
  /\ UNCHANGED << wizard, persistence >>
  /\ UNCHANGED << inputs, pc, alpha, beta, idx, sampledWith, sensIdx,
                  sensitivity, reducedRuns, result, call, first, attempts >>

\* ReturnSamples taken right after the rejection loop, without the fallback
ReturnSamples_AfterLoop ==
  /\ pc = "sampling" /\ ~Moderate(alpha, beta)
  /\ Len(samples) >= DrawCount \/ attempts >= DrawCount * ATTEMPTS_PER_SAMPLE
  /\ pc' = "sampled"
  /\ UNCHANGED << wizard, persistence >>
  /\ UNCHANGED << inputs, alpha, beta, idx, samples, sampledWith, sensIdx,
                  sensitivity, reducedRuns, result, call, first, attempts >>

\* line 210
ReturnSamples ==
  /\ pc = "sampling" /\ ~Moderate(alpha, beta)
  /\ Len(samples) >= DrawCount
  /\ pc' = "sampled"
  /\ UNCHANGED << wizard, persistence >>
  /\ UNCHANGED << inputs, alpha, beta, idx, samples, sampledWith, sensIdx,
                  sensitivity, reducedRuns, result, call, first, attempts >>

NextSampler == StandardSampling \/ RejectionStep \/ FallbackStep \/ ReturnSamples

SpecSampler == InitSampler /\ [][NextSampler]_vars

\* the call is one synchronous run: it keeps stepping until it returns
SpecSamplerLive == SpecSampler /\ WF_vars(NextSampler)

\* ------------------------------------------------------------ the wizard
\* ids crypto.randomUUID can still hand out to the criteria of one session
MaxUuids == 1

\* the variables of the calculation engine
engine == << inputs, pc, alpha, beta, idx, samples, sampledWith, sensIdx,
             sensitivity, reducedRuns, result, call, first, attempts >>

\* Index.tsx line 17
STEPS == << "decision", "criteria", "evaluation", "simulating", "results", "experiments" >>

\* STEPS.indexOf(step), 1-based
StepIndex(s) == CHOOSE k \in 1..Len(STEPS) : STEPS[k] = s

\* the k-th value of crypto.randomUUID: no value is handed out twice
Uuid(k) == [kind |-> "uuid", value |-> k]

\* the id of the n-th row of a table (gen_random_uuid)
RowId(n) == [kind |-> "row", value |-> n]

\* part_001 lines 24-29: a criterion as addCriterion and fetchAISuggestions build it
NewCriterion(k) == [id |-> Uuid(k), name |-> "criterion", importance |-> 50]

\* confidence values the slider of DecisionEntry can submit
Confidences == {50, 90}

\* importance values the slider of CriteriaWizard can set
Importances == {50, 100}

\* the partial updates the controls of CriteriaEvaluation pass to updateEvaluation
Updates == {"opposes", "strong"}

\* { ...e, ...updates }
ApplyUpdates(e, updates) ==
  IF updates = "opposes" THEN [e EXCEPT !.supportsDecision = FALSE]
  ELSE [e EXCEPT !.strength = 100]

\* decisions loadDecisions can hand to the page through location.state: rows
\* of the three tables, so ids are row ids and every evaluation refers to a
\* criterion row (criterion_id is a foreign key); saveDecision can leave a
\* criterion without evaluation
SavedDecisions ==
  { [initialConfidence |-> 90,
     criteria |-> << [id |-> RowId(1), name |-> "criterion", importance |-> 100] >>,
     evaluations |-> << [criterionId |-> RowId(1), supportsDecision |-> FALSE,
                         strength |-> 100, confidence |-> 50] >>],
    [initialConfidence |-> 50,
     criteria |-> << [id |-> RowId(1), name |-> "criterion", importance |-> 50],
                     [id |-> RowId(2), name |-> "criterion", importance |-> 50] >>,
     evaluations |-> << [criterionId |-> RowId(2), supportsDecision |-> TRUE,
                         strength |-> 50, confidence |-> 50] >>] }

\* initialEvaluations.find(e => e.criterionId === c.id): index of the first match, 0 when none
RECURSIVE FindEvaluationFrom(_, _, _)
FindEvaluationFrom(evals, id, k) ==
  IF k > Len(evals) THEN 0
  ELSE IF evals[k].criterionId = id THEN k
  ELSE FindEvaluationFrom(evals, id, k + 1)

\* CriteriaEvaluation.tsx lines 37-42 and 45-50
DefaultEvaluation(c) ==
  [criterionId |-> c.id, supportsDecision |-> TRUE, strength |-> 50, confidence |-> 50]

\* EvaluationsFor handing the given evaluations on when there are any
EvaluationsFor_KeepsGiven(cs, evals) ==
  IF evals # <<>> THEN evals ELSE [k \in 1..Len(cs) |-> DefaultEvaluation(cs[k])]

\* criteria.map(c => existing ?? default), CriteriaEvaluation.tsx lines 34-43 and 75-84
EvaluationsFor(cs, evals) ==
  [k \in 1..Len(cs) |->
     IF FindEvaluationFrom(evals, cs[k].id, 1) = 0
     THEN DefaultEvaluation(cs[k])
     ELSE evals[FindEvaluationFrom(evals, cs[k].id, 1)]]

\* CriteriaEvaluation.tsx lines 31-51
getInitialEvaluations(cs, initialEvaluations) ==
  IF Len(initialEvaluations) > 0
  THEN EvaluationsFor(cs, initialEvaluations)
  ELSE [k \in 1..Len(cs) |-> DefaultEvaluation(cs[k])]

\* the effect of CriteriaEvaluation.tsx lines 71-86, which also runs after the first render
SyncEvaluations(cs, prev) ==
  IF Len(cs) > 0 THEN EvaluationsFor(cs, prev) ELSE prev

\* the local state of CriteriaEvaluation once it is mounted with these props
MountedEvaluations(cs, initialEvaluations) ==
  SyncEvaluations(cs, getInitialEvaluations(cs, initialEvaluations))

\* the alpha and beta calculatePosterior aggregates, part_004 lines 349-381
RECURSIVE EvidenceFold(_, _, _, _)
EvidenceFold(a, b, ev, cfg) ==
  IF ev = <<>> THEN [alpha |-> a, beta |-> b]
  ELSE LET n == EvidenceUpdate(a, b, Head(ev), cfg)
       IN EvidenceFold(n.alpha, n.beta, Tail(ev), cfg)

\* the alpha and beta calculatePosteriorFromEvaluations aggregates, part_004 lines 452-508
RECURSIVE EvaluationFold(_, _, _, _, _, _)
EvaluationFold(a, b, evals, cs, cfg, groups) ==
  IF evals = <<>> THEN [alpha |-> a, beta |-> b]
  ELSE LET n == EvaluationUpdate(a, b, Head(evals), cs, cfg, groups)
       IN EvaluationFold(n.alpha, n.beta, Tail(evals), cs, cfg, groups)

\* what goToNextStep stores before the 'simulating' step, Index.tsx lines 67-79:
\* the outcome of calculatePosterior(initialConfidence, evidence), named by
\* the Beta parameters its samples are drawn from
PosteriorOfEvidence(ds) ==
  LET f == EvidenceFold(PriorAlpha(ds.initialConfidence, DefaultConfig),
                        PriorBeta(ds.initialConfidence, DefaultConfig),
                        ds.evidence, DefaultConfig)
  IN [kind |-> "calculated", alpha |-> f.alpha, beta |-> f.beta]

\* what ResultsDashboard calculates (part_003 lines 20-25) and ExperimentDesign
\* is given (Index.tsx lines 284-288)
PosteriorOfEvaluations(ds) ==
  LET f == EvaluationFold(PriorAlpha(ds.initialConfidence, DefaultConfig),
                          PriorBeta(ds.initialConfidence, DefaultConfig),
                          ds.criteriaEvaluations, ds.criteria, DefaultConfig, <<>>)
  IN [kind |-> "calculated", alpha |-> f.alpha, beta |-> f.beta]

\* goToNextStep from step st with the decision state ds, Index.tsx lines 64-83
goToNextStep(ds, st) ==
  IF StepIndex(st) + 1 > Len(STEPS) THEN [decisionState |-> ds, step |-> st]
  ELSE [decisionState |-> IF STEPS[StepIndex(st) + 1] = "simulating"
                          THEN [ds EXCEPT !.posterior = PosteriorOfEvidence(ds)]
                          ELSE ds,
        step |-> STEPS[StepIndex(st) + 1]]

\* goToPrevStep, Index.tsx lines 89-94
goToPrevStep(st) == IF StepIndex(st) - 1 >= 1 THEN STEPS[StepIndex(st) - 1] ELSE st

\* the local state of the step components that are not shown
NoCriteriaWizard == draftCriteria' = <<>> /\ pendingAI' = NoResult
NoCriteriaEvaluation == draftEvaluations' = <<>> /\ currentIndex' = 0

InitWizard ==
  /\ entry = "wizard"
  /\ prior = 50 /\ config = DefaultConfig /\ correlationGroups = <<>>
  /\ evidence = <<>> /\ evaluations = <<>> /\ criteria = <<>>
  /\ pc = "idle"
  /\ alpha = 0 /\ beta = 0 /\ idx = 0
  /\ samples = <<>> /\ sampledWith = <<>>
  /\ sensIdx = 0 /\ sensitivity = <<>> /\ reducedRuns = <<>>
  /\ result = NoResult
  /\ call = "first" /\ first = NoResult
  /\ attempts = 0
  /\ WizardMounted
  /\ user = FALSE /\ PersistenceIdle

\* the effect of Index.tsx lines 38-60 after History navigated to the page
\* with a saved decision: the page is mounted anew and starts at 'criteria'
LoadSavedDecision ==
  /\ \E savedDecision \in SavedDecisions :
       /\ decisionState' = [initialConfidence |-> savedDecision.initialConfidence,
                            criteria |-> savedDecision.criteria,
                            criteriaEvaluations |-> savedDecision.evaluations,
                            evidence |-> <<>>,
                            posterior |-> [kind |-> "saved"]]
       /\ draftCriteria' = savedDecision.criteria
  /\ step' = "criteria"
  /\ pendingAI' = NoResult
  /\ NoCriteriaEvaluation
  /\ event' = "loadSavedDecision"
  /\ UNCHANGED << uuids, engine, persistence >>

\* handleDecisionSubmit, Index.tsx lines 96-99
HandleDecisionSubmit ==
  /\ step = "decision"
  /\ \E confidence \in Confidences :
       LET n == goToNextStep([decisionState EXCEPT !.initialConfidence = confidence], step)
       IN /\ decisionState' = n.decisionState
          /\ step' = n.step
          /\ draftCriteria' = n.decisionState.criteria
  /\ pendingAI' = NoResult
  /\ NoCriteriaEvaluation
  /\ event' = "handleDecisionSubmit"
  /\ UNCHANGED << uuids, engine, persistence >>

\* addCriterion, part_001 lines 22-33
AddCriterion ==
  /\ step = "criteria" /\ uuids < MaxUuids
  /\ draftCriteria' = Append(draftCriteria, NewCriterion(uuids + 1))
  /\ uuids' = uuids + 1
  /\ event' = "addCriterion"
  /\ UNCHANGED << step, decisionState, draftEvaluations, currentIndex, pendingAI,
                  engine, persistence >>

\* removeCriterion, part_001 lines 35-37
RemoveCriterion ==
  /\ step = "criteria"
  /\ \E k \in 1..Len(draftCriteria) :
       draftCriteria' = SelectSeq(draftCriteria, LAMBDA c : c.id # draftCriteria[k].id)
  /\ event' = "removeCriterion"
  /\ UNCHANGED << step, decisionState, draftEvaluations, currentIndex, pendingAI,
                  uuids, engine, persistence >>

\* updateImportance, part_001 lines 39-43
UpdateImportance ==
  /\ step = "criteria"
  /\ \E k \in 1..Len(draftCriteria), importance \in Importances :
       draftCriteria' = [j \in 1..Len(draftCriteria) |->
                           IF draftCriteria[j].id = draftCriteria[k].id
                           THEN [draftCriteria[j] EXCEPT !.importance = importance]
                           ELSE draftCriteria[j]]
  /\ event' = "updateImportance"
  /\ UNCHANGED << step, decisionState, draftEvaluations, currentIndex, pendingAI,
                  uuids, engine, persistence >>

\* fetchAISuggestions up to its await, part_001 lines 45-50: the closure keeps
\* the criteria list of this render
FetchAISuggestions ==
  /\ step = "criteria" /\ pendingAI = NoResult
  /\ pendingAI' = [kind |-> "pending", criteria |-> draftCriteria]
  /\ event' = "fetchAISuggestions"
  /\ UNCHANGED << step, decisionState, draftCriteria, draftEvaluations, currentIndex,
                  uuids, engine, persistence >>

\* fetchAISuggestions after its await, part_001 lines 52-70: one suggestion is
\* appended to the list the closure kept, or the call failed
AISuggestionsReturn ==
  /\ step = "criteria" /\ pendingAI # NoResult
  /\ \/ /\ uuids < MaxUuids
        /\ draftCriteria' = Append(pendingAI.criteria, NewCriterion(uuids + 1))
        /\ uuids' = uuids + 1
     \/ UNCHANGED << draftCriteria, uuids >>
  /\ pendingAI' = NoResult
  /\ event' = "fetchAISuggestions"
  /\ UNCHANGED << step, decisionState, draftEvaluations, currentIndex,
                  engine, persistence >>

\* handleSubmit of CriteriaWizard (part_001 lines 73-77) into handleCriteriaSubmit
\* (Index.tsx lines 101-104); CriteriaEvaluation is mounted with the new criteria
HandleCriteriaSubmit ==
  /\ step = "criteria" /\ Len(draftCriteria) > 0
  /\ LET n == goToNextStep([decisionState EXCEPT !.criteria = draftCriteria], step)
     IN /\ decisionState' = n.decisionState
        /\ step' = n.step
        /\ draftEvaluations' = MountedEvaluations(n.decisionState.criteria,
                                                  n.decisionState.criteriaEvaluations)
  /\ currentIndex' = 0
  /\ NoCriteriaWizard
  /\ event' = "handleCriteriaSubmit"
  /\ UNCHANGED << uuids, engine, persistence >>

\* the Back button of CriteriaWizard, part_001 line 255: goToPrevStep
CriteriaBack ==
  /\ step = "criteria"
  /\ step' = goToPrevStep(step)
  /\ NoCriteriaWizard
  /\ event' = "onBack"
  /\ UNCHANGED << decisionState, draftEvaluations, currentIndex, uuids,
                  engine, persistence >>

\* updateEvaluation, CriteriaEvaluation.tsx lines 144-152
UpdateEvaluation ==
  /\ step = "evaluation"
  /\ \E updates \in Updates :
       draftEvaluations' =
         [k \in 1..Len(draftEvaluations) |->
            IF draftEvaluations[k].criterionId = decisionState.criteria[currentIndex + 1].id
            THEN ApplyUpdates(draftEvaluations[k], updates)
            ELSE draftEvaluations[k]]
  /\ event' = "updateEvaluation"
  /\ UNCHANGED << step, decisionState, draftCriteria, currentIndex, pendingAI, uuids,
                  engine, persistence >>

\* handleNext, CriteriaEvaluation.tsx lines 154-160; on the last criterion
\* handleEvaluationsSubmit, Index.tsx lines 106-109
HandleNext ==
  /\ step = "evaluation"
  /\ IF currentIndex = Len(decisionState.criteria) - 1
     THEN LET n == goToNextStep([decisionState EXCEPT !.criteriaEvaluations = draftEvaluations],
                                step)
          IN /\ decisionState' = n.decisionState
             /\ step' = n.step
             /\ NoCriteriaEvaluation
     ELSE /\ currentIndex' = currentIndex + 1
          /\ UNCHANGED << step, decisionState, draftEvaluations >>
  /\ event' = "handleNext"
  /\ UNCHANGED << draftCriteria, pendingAI, uuids, engine, persistence >>

\* handlePrev, CriteriaEvaluation.tsx lines 162-168; on the first criterion
\* onBack, which is goToPrevStep: CriteriaWizard is mounted again
HandlePrev ==
  /\ step = "evaluation"
  /\ IF currentIndex = 0
     THEN /\ step' = goToPrevStep(step)
          /\ draftCriteria' = decisionState.criteria
          /\ NoCriteriaEvaluation
     ELSE /\ currentIndex' = currentIndex - 1
          /\ UNCHANGED << step, draftCriteria, draftEvaluations >>
  /\ event' = "handlePrev"
  /\ UNCHANGED << decisionState, pendingAI, uuids, engine, persistence >>

\* handleSimulationComplete, Index.tsx lines 85-87
HandleSimulationComplete ==
  /\ step = "simulating"
  /\ step' = "results"
  /\ event' = "handleSimulationComplete"
  /\ UNCHANGED << decisionState, draftCriteria, draftEvaluations, currentIndex,
                  pendingAI, uuids, engine, persistence >>

\* the 'Adjust evaluations' button of ResultsDashboard (part_003 lines 239-241),
\* whose onBack is goToPrevStep (Index.tsx line 267)
ResultsBack ==
  /\ step = "results"
  /\ step' = goToPrevStep(step)
  /\ event' = "onBack"
  /\ UNCHANGED << decisionState, draftCriteria, draftEvaluations, currentIndex,
                  pendingAI, uuids, engine, persistence >>

\* handleStartExperiments, Index.tsx lines 111-113
HandleStartExperiments ==
  /\ step = "results"
  /\ step' = "experiments"
  /\ event' = "handleStartExperiments"
  /\ UNCHANGED << decisionState, draftCriteria, draftEvaluations, currentIndex,
                  pendingAI, uuids, engine, persistence >>

\* onBack of ExperimentDesign, Index.tsx line 289
ExperimentsBack ==
  /\ step = "experiments"
  /\ step' = "results"
  /\ event' = "onBack"
  /\ UNCHANGED << decisionState, draftCriteria, draftEvaluations, currentIndex,
                  pendingAI, uuids, engine, persistence >>

\* handleReset, Index.tsx lines 119-132: 'Start over' of DecisionEntry (shown
\* when there are criteria) and of ResultsDashboard, onComplete of ExperimentDesign
HandleReset ==
  /\ \/ step = "decision" /\ Len(decisionState.criteria) > 0
     \/ step = "results"
     \/ step = "experiments"
  /\ decisionState' = InitialDecisionState
  /\ step' = "decision"
  /\ event' = "handleReset"
  /\ UNCHANGED << draftCriteria, draftEvaluations, currentIndex, pendingAI, uuids,
                  engine, persistence >>

NextWizard ==
  \/ LoadSavedDecision
  \/ HandleDecisionSubmit
  \/ AddCriterion
  \/ RemoveCriterion
  \/ UpdateImportance
  \/ FetchAISuggestions
  \/ AISuggestionsReturn
  \/ HandleCriteriaSubmit
  \/ CriteriaBack
  \/ UpdateEvaluation
  \/ HandleNext
  \/ HandlePrev
  \/ HandleSimulationComplete
  \/ ResultsBack
  \/ HandleStartExperiments
  \/ ExperimentsBack
  \/ HandleReset

SpecWizard == InitWizard /\ [][NextWizard]_vars

\* ------------------------------------------------- useDecisionPersistence
\* rows the decisions table can hold in the model
MaxDecisions == 1

\* the decision states and win percentages saveDecision is called with:
\* outcomes of the wizard, whose evaluations match the criteria one to one
SaveInputs ==
  { [state |-> [criteria |-> cs,
                criteriaEvaluations |-> [k \in 1..Len(cs) |-> DefaultEvaluation(cs[k])],
                posteriorProbability |-> Finite(p.mean),
                credibleInterval |-> << Finite(p.low), Finite(p.high) >>],
     winPercentage |-> Finite(w)] :
      cs \in { << NewCriterion(1) >>, << NewCriterion(1), NewCriterion(2) >> },
      p \in { [mean |-> 50, low |-> 35, high |-> 65], [mean |-> 4, low |-> 1, high |-> 12] },
      w \in {0, 62} }

\* criteriaMapping.get(id): the value set last for the key, Null when there is none
RECURSIVE MappingGet(_, _)
MappingGet(mapping, id) ==
  IF mapping = <<>> THEN Null
  ELSE IF mapping[Len(mapping)].key = id THEN mapping[Len(mapping)].value
  ELSE MappingGet(SubSeq(mapping, 1, Len(mapping) - 1), id)

\* the next iteration after k of the loop of lines 80-96 that reaches an
\* insert: iterations whose criterion has no new id are skipped (line 82);
\* 0 when the loop ends
RECURSIVE NextEvaluation(_, _, _)
NextEvaluation(evals, mapping, k) ==
  IF k + 1 > Len(evals) THEN 0
  ELSE IF MappingGet(mapping, evals[k + 1].criterionId) = Null
       THEN NextEvaluation(evals, mapping, k + 1)
       ELSE k + 1

\* id of the next row of a table (gen_random_uuid: never one that exists)
NewRowId(table) == RowId(Len(table) + 1)

InitPersistence ==
  /\ entry = "persistence"
  /\ prior = 50 /\ config = DefaultConfig /\ correlationGroups = <<>>
  /\ evidence = <<>> /\ evaluations = <<>> /\ criteria = <<>>
  /\ pc = "idle"
  /\ alpha = 0 /\ beta = 0 /\ idx = 0
  /\ samples = <<>> /\ sampledWith = <<>>
  /\ sensIdx = 0 /\ sensitivity = <<>> /\ reducedRuns = <<>>
  /\ result = NoResult
  /\ call = "first" /\ first = NoResult
  /\ attempts = 0
  /\ WizardMounted
  /\ user \in BOOLEAN
  /\ PersistenceIdle

\* the catch and finally blocks of saveDecision, lines 100-105
SaveFailed ==
  /\ returned' = Null
  /\ saving' = FALSE
  /\ savePc' = [savePc EXCEPT !.at = "returned"]

\* saveDecision after an insert succeeded and k evaluations were looped over:
\* the position of the next insert, or lines 98-99 and the finally block
SaveContinues(args, mapping, k, decisionId) ==
  LET j == NextEvaluation(args.state.criteriaEvaluations, mapping, k)
  IN IF j = 0
     THEN /\ returned' = decisionId
          /\ saving' = FALSE
          /\ savePc' = [at |-> "returned", k |-> k, decisionId |-> decisionId]
     ELSE /\ savePc' = [at |-> "evaluations", k |-> j, decisionId |-> decisionId]
          /\ UNCHANGED << returned, saving >>

\* saveDecision up to its first await, lines 26-37
SaveDecision ==
  /\ savePc.at \in {"idle", "returned"}
  /\ Len(db.decisions) < MaxDecisions
  /\ \E args \in SaveInputs :
       IF ~user
       THEN /\ returned' = Null
            /\ savePc' = [at |-> "returned", k |-> 0, decisionId |-> Null]
            /\ UNCHANGED << saving, saveArgs, criteriaMapping >>
       ELSE /\ saving' = TRUE
            /\ saveArgs' = args
            /\ criteriaMapping' = <<>>
            /\ returned' = NoResult
            /\ savePc' = [at |-> "decision", k |-> 0, decisionId |-> Null]
  /\ UNCHANGED << user, db, loaded, wizard, engine >>

\* the insert into decisions returns, lines 38-57: the row is stored, or the
\* request failed
InsertDecision ==
  /\ savePc.at = "decision"
  /\ \/ LET decisionId == NewRowId(db.decisions)
            row == [id |-> decisionId,
                    posterior_probability |-> saveArgs.state.posteriorProbability,
                    credible_interval_low |-> saveArgs.state.credibleInterval[1],
                    credible_interval_high |-> saveArgs.state.credibleInterval[2],
                    win_percentage |-> saveArgs.winPercentage]
        IN /\ db' = [db EXCEPT !.decisions = Append(@, row)]
           /\ IF Len(saveArgs.state.criteria) > 0
              THEN /\ savePc' = [at |-> "criteria", k |-> 1, decisionId |-> decisionId]
                   /\ UNCHANGED << returned, saving >>
              ELSE SaveContinues(saveArgs, criteriaMapping, 0, decisionId)
     \/ SaveFailed /\ UNCHANGED db
  /\ UNCHANGED << user, saveArgs, criteriaMapping, loaded, wizard, engine >>

\* the insert into decision_criteria of iteration savePc.k returns, lines 62-78
InsertCriterion ==
  /\ savePc.at = "criteria"
  /\ \/ LET criterion == saveArgs.state.criteria[savePc.k]
            newId == NewRowId(db.decision_criteria)
            row == [id |-> newId, decision_id |-> savePc.decisionId,
                    name |-> criterion.name, importance |-> criterion.importance]
            mapping == Append(criteriaMapping, [key |-> criterion.id, value |-> newId])
        IN /\ db' = [db EXCEPT !.decision_criteria = Append(@, row)]
           /\ criteriaMapping' = mapping
           /\ IF savePc.k < Len(saveArgs.state.criteria)
              THEN /\ savePc' = [savePc EXCEPT !.k = @ + 1]
                   /\ UNCHANGED << returned, saving >>
              ELSE SaveContinues(saveArgs, mapping, 0, savePc.decisionId)
     \/ SaveFailed /\ UNCHANGED << db, criteriaMapping >>
  /\ UNCHANGED << user, saveArgs, loaded, wizard, engine >>

\* the insert into decision_evaluations of iteration savePc.k returns, lines 84-96
InsertEvaluation ==
  /\ savePc.at = "evaluations"
  /\ \/ LET evaluation == saveArgs.state.criteriaEvaluations[savePc.k]
            row == [decision_id |-> savePc.decisionId,
                    criterion_id |-> MappingGet(criteriaMapping, evaluation.criterionId),
                    supports_decision |-> evaluation.supportsDecision,
                    strength |-> evaluation.strength,
                    confidence |-> evaluation.confidence]
        IN /\ db' = [db EXCEPT !.decision_evaluations = Append(@, row)]
           /\ SaveContinues(saveArgs, criteriaMapping, savePc.k, savePc.decisionId)
     \/ SaveFailed /\ UNCHANGED db
  /\ UNCHANGED << user, saveArgs, criteriaMapping, loaded, wizard, engine >>

\* a NUMERIC column as a JavaScript condition: null and 0 are falsy
Truthy(x) == x # Null /\ x.value # 0

\* d.column ? Number(d.column) : null, lines 155-158
NumberOrNull(x) == IF Truthy(x) THEN Finite(x.value) ELSE Null

\* lines 134-144: the rows of decision d as criteria of the page
CriteriaOf(d) ==
  LET rows == SelectSeq(db.decision_criteria, LAMBDA c : c.decision_id = d.id)
  IN [k \in 1..Len(rows) |->
        [id |-> rows[k].id, name |-> rows[k].name, importance |-> rows[k].importance]]

\* lines 128-132 and 146-151: the rows of decision d as evaluations of the page
EvaluationsOfDecision(d) ==
  LET rows == SelectSeq(db.decision_evaluations, LAMBDA e : e.decision_id = d.id)
  IN [k \in 1..Len(rows) |->
        [criterionId |-> rows[k].criterion_id, supportsDecision |-> rows[k].supports_decision,
         strength |-> rows[k].strength, confidence |-> rows[k].confidence]]

\* result.push of lines 153-163 for the row d
SavedDecisionOf(d) ==
  [id |-> d.id,
   posteriorProbability |-> NumberOrNull(d.posterior_probability),
   credibleIntervalLow |-> NumberOrNull(d.credible_interval_low),
   credibleIntervalHigh |-> NumberOrNull(d.credible_interval_high),
   winPercentage |-> NumberOrNull(d.win_percentage),
   criteria |-> CriteriaOf(d),
   evaluations |-> EvaluationsOfDecision(d)]

\* loadDecisions, lines 108-174: newest decision first; [] without a user or
\* when the query fails
LoadDecisions ==
  /\ \/ /\ user
        /\ loaded' = [kind |-> "list",
                      decisions |-> [k \in 1..Len(db.decisions) |->
                                       SavedDecisionOf(db.decisions[Len(db.decisions) + 1 - k])]]
     \/ loaded' = [kind |-> "list", decisions |-> <<>>]
  /\ UNCHANGED << user, saving, savePc, saveArgs, db, criteriaMapping, returned,
                  wizard, engine >>

NextPersistence ==
  \/ SaveDecision
  \/ InsertDecision
  \/ InsertCriterion
  \/ InsertEvaluation
  \/ LoadDecisions

SpecPersistence == InitPersistence /\ [][NextPersistence]_vars

\* ------------------------------------------------------ CalculationsPane
\* one iteration of criteriaEvaluations.forEach, CalculationsPane.tsx lines
\* 40-67: pseudoCount = (strength / 5) * (confidence / 5) * (importance / 100) * 5,
\* in units 1/U, added to alpha when the evaluation supports and to beta when not
PaneUpdate(a, b, evaluation, cs) ==
  LET importance == ImportanceOf(cs, evaluation.criterionId)
      pseudoCount == (evaluation.strength * evaluation.confidence * importance * U) \div 500
      alphaChange == IF evaluation.supportsDecision THEN pseudoCount ELSE 0
      betaChange == IF evaluation.supportsDecision THEN 0 ELSE pseudoCount
  IN [alpha |-> a + alphaChange, beta |-> b + betaChange]

RECURSIVE PaneFold(_, _, _, _)
PaneFold(a, b, evals, cs) ==
  IF evals = <<>> THEN [alpha |-> a, beta |-> b]
  ELSE LET n == PaneUpdate(a, b, Head(evals), cs)
       IN PaneFold(n.alpha, n.beta, Tail(evals), cs)

\* finalAlpha and finalBeta of CalculationsPane, lines 20-70; concentration is the literal 10
CalculationsPane(initialConfidence, cs, criteriaEvaluations) ==
  PaneFold(Max(U \div 2, (initialConfidence * 10 * U) \div 100),
           Max(U \div 2, ((100 - initialConfidence) * 10 * U) \div 100),
           criteriaEvaluations, cs)

\* ------------------------------------------------- floating-point folds
\* The folds as the code computes them, in binary floating point: every
\* division, product, difference and sum is rounded to the nearest number
\* with SignificandBits significant bits, ties to even.  Values are kept in
\* units of 2^-FractionBits, the finest spacing of the format.  A JavaScript
\* number has 53 significant bits; the format here is the same arithmetic at
\* a width TLC's integers can hold.
SignificandBits == 8
FractionBits == 12

RECURSIVE Pow2(_)
Pow2(n) == IF n = 0 THEN 1 ELSE 2 * Pow2(n - 1)

\* number of bits of n (0 for 0)
RECURSIVE BitLen(_)
BitLen(n) == IF n = 0 THEN 0 ELSE 1 + BitLen(n \div 2)

\* spacing of the representable numbers at magnitude n
UlpOf(n) ==
  IF BitLen(n) <= SignificandBits THEN 1 ELSE Pow2(BitLen(n) - SignificandBits)

\* num/den (units of 2^-FractionBits) rounded to the nearest representable
\* number, ties to even
FlRound(num, den) ==
  LET s == UlpOf(num \div den)
      m == num \div (den * s)
      twice == 2 * (num - m * den * s)
  IN IF twice > den * s THEN (m + 1) * s
     ELSE IF twice < den * s THEN m * s
     ELSE IF m % 2 = 0 THEN m * s ELSE (m + 1) * s

\* the integer n as a number
FlInt(n) == n * Pow2(FractionBits)

\* FlAdd rounding toward zero with four bits less
FlAdd_Chopped(x, y) ==
  LET s == 16 * UlpOf(x + y) IN ((x + y) \div s) * s

FlAdd(x, y) == FlRound(x + y, 1)
FlSub(x, y) == FlRound(x - y, 1)
FlMul(x, y) == FlRound(x * y, Pow2(FractionBits))
FlDiv(x, y) == FlRound(x * Pow2(FractionBits), y)

\* part_004 lines 346-350 / 451-453
FlPrior(p, cfg) ==
  LET priorProb == FlDiv(FlInt(p), FlInt(100))
      half == Pow2(FractionBits - 1)
  IN [alpha |-> Max(half, FlMul(priorProb, FlInt(cfg.priorConcentration))),
      beta |-> Max(half, FlMul(FlSub(FlInt(1), priorProb), FlInt(cfg.priorConcentration)))]

\* one iteration of evidence.forEach, part_004 lines 367-381
FlEvidenceUpdate(a, b, item, cfg) ==
  LET weight == FlDiv(FlInt(item.weight), FlInt(100))
      value == FlDiv(FlInt(item.value), FlInt(100))
      pseudoCount == FlMul(weight, FlInt(cfg.evidenceStrengthScale))
      support == FlMul(value, pseudoCount)
      against == FlMul(FlSub(FlInt(1), value), pseudoCount)
  IN [alpha |-> FlAdd(a, support), beta |-> FlAdd(b, against)]

RECURSIVE FlEvidenceFold(_, _, _, _)
FlEvidenceFold(a, b, ev, cfg) ==
  IF ev = <<>> THEN [alpha |-> a, beta |-> b]
  ELSE LET n == FlEvidenceUpdate(a, b, Head(ev), cfg)
       IN FlEvidenceFold(n.alpha, n.beta, Tail(ev), cfg)

\* computeCorrelationAdjustedWeight(1, correlationFactor, groupSize), part_004 lines 313-326
FlCorrelationAdjustedWeight(correlationFactor, groupSize) ==
  IF groupSize <= 1 \/ correlationFactor = 0 THEN FlInt(1)
  ELSE LET r == FlDiv(FlInt(correlationFactor), FlInt(100))
           effectiveCount == FlAdd(FlInt(1), FlMul(FlInt(groupSize - 1), FlSub(FlInt(1), r)))
           adjustmentFactor == FlDiv(effectiveCount, FlInt(groupSize))
       IN FlMul(FlInt(1), adjustmentFactor)

\* correlationAdjustments.get(id) ?? 1, part_004 lines 473-482 and 495
FlCorrelationMultiplier(cfg, groups, id) ==
  IF cfg.applyCorrelationAdjustment /\ Len(groups) > 0
       /\ LastGroupWith(groups, id, Len(groups)) > 0
  THEN LET g == groups[LastGroupWith(groups, id, Len(groups))]
       IN FlCorrelationAdjustedWeight(g.correlationFactor, Len(g.ids))
  ELSE FlInt(1)

\* one iteration of evaluations.forEach, part_004 lines 415-432 and 484-508
FlEvaluationUpdate(a, b, evaluation, cs, cfg, groups) ==
  LET importance == ImportanceOf(cs, evaluation.criterionId)
      confidenceFactor == FlDiv(FlInt(evaluation.confidence), FlInt(100))
      importanceFactor == FlDiv(FlInt(importance), FlInt(100))
      pseudoCount == FlMul(FlMul(confidenceFactor, importanceFactor),
                           FlInt(cfg.evidenceStrengthScale))
      evidenceStrength == FlDiv(FlInt(evaluation.strength), FlInt(100))
      adjustedPseudoCount == FlMul(pseudoCount,
                                   FlCorrelationMultiplier(cfg, groups, evaluation.criterionId))
      with == FlMul(evidenceStrength, adjustedPseudoCount)
      rest == FlMul(FlSub(FlInt(1), evidenceStrength), adjustedPseudoCount)
  IN IF evaluation.supportsDecision
     THEN [alpha |-> FlAdd(a, with), beta |-> FlAdd(b, rest)]
     ELSE [alpha |-> FlAdd(a, rest), beta |-> FlAdd(b, with)]

RECURSIVE FlEvaluationFold(_, _, _, _, _, _)
FlEvaluationFold(a, b, evals, cs, cfg, groups) ==
  IF evals = <<>> THEN [alpha |-> a, beta |-> b]
  ELSE LET n == FlEvaluationUpdate(a, b, Head(evals), cs, cfg, groups)
       IN FlEvaluationFold(n.alpha, n.beta, Tail(evals), cs, cfg, groups)

\* the list s in every order (array elements reordered)
Reorderings(s) ==
  { [k \in 1..Len(s) |-> s[f[k]]] :
      f \in { g \in [1..Len(s) -> 1..Len(s)] : \A i, j \in 1..Len(s) : g[i] = g[j] => i = j } }

\* the (alpha, beta) the entry point aggregates in floating point for the list in the order s
FlAggregate(s) ==
  IF entry = "evidence"
  THEN FlEvidenceFold(FlPrior(prior, config).alpha, FlPrior(prior, config).beta, s, config)
  ELSE FlEvaluationFold(FlPrior(prior, config).alpha, FlPrior(prior, config).beta, s,
                        criteria, config, correlationGroups)

\* the same in exact arithmetic (units 1/U)
ExactAggregate(s) ==
  IF entry = "evidence"
  THEN EvidenceFold(PriorAlpha(prior, config), PriorBeta(prior, config), s, config)
  ELSE EvaluationFold(PriorAlpha(prior, config), PriorBeta(prior, config), s,
                      criteria, config, correlationGroups)

\* the list the entry point was given
GivenList == IF entry = "evidence" THEN evidence ELSE evaluations

\* ------------------------------------------------------------ sanity
TypeOK ==
  /\ pc \in {"start", "fold", "sample", "sens", "return", "done"}
  /\ alpha \in Nat /\ beta \in Nat
  /\ idx \in 0..Len(Items)
  /\ call \in {"first", "repeat", "extended"}

\* the fixed-point divisions lose nothing on the inputs of the model
ExactArithmetic ==
  /\ (prior * config.priorConcentration * U) % 100 = 0
  /\ \A i \in 1..Len(evidence) :
        LET pcount == (evidence[i].weight * config.evidenceStrengthScale * U) \div 100
        IN /\ (evidence[i].weight * config.evidenceStrengthScale * U) % 100 = 0
           /\ (evidence[i].value * pcount) % 100 = 0
  /\ \A i \in 1..Len(evaluations) :
        LET e == evaluations[i]
            imp == ImportanceOf(criteria, e.criterionId)
            raw == e.confidence * imp * config.evidenceStrengthScale * U
            m == CorrelationMultiplier(config, correlationGroups, e.criterionId)
        IN /\ raw % 10000 = 0
           /\ ((raw \div 10000) * m.num) % m.den = 0
           /\ (e.strength * (raw \div 10000)) % 100 = 0
           /\ (e.strength * (((raw \div 10000) * m.num) \div m.den)) % 100 = 0

\* ------------------------------------------------------------------ claims
\* the positions after the fold over the list has finished
Folded == pc \in {"sample", "sens", "return", "done"}

\* the prior parameters as section 4.1 states them: max(0.5, (p/100) c) and
\* max(0.5, (1 - p/100) c), in units 1/U
Alpha0 == Max(U \div 2, (prior * config.priorConcentration * U) \div 100)
Beta0 == Max(U \div 2, ((100 - prior) * config.priorConcentration * U) \div 100)

\* importance of the criterion an evaluation refers to (50 when there is none)
ImportanceFor(e) ==
  IF \E k \in 1..Len(criteria) : criteria[k].id = e.criterionId
  THEN LET k == CHOOSE j \in 1..Len(criteria) :
                  /\ criteria[j].id = e.criterionId
                  /\ \A i \in 1..(j - 1) : criteria[i].id # e.criterionId
       IN criteria[k].importance
  ELSE 50

\* strength * confidence * importance * scale: s * pseudoCount times 10^6
SupportShare(e) ==
  e.strength * e.confidence * ImportanceFor(e) * config.evidenceStrengthScale
RestShare(e) ==
  (100 - e.strength) * e.confidence * ImportanceFor(e) * config.evidenceStrengthScale

\* C1 (step): with correlation adjustment off, folding one evaluation adds
\* s*pseudoCount to alpha and (1-s)*pseudoCount to beta when it supports the
\* decision, and the other way round when it does not, where pseudoCount =
\* (confidence/100)*(importance/100)*evidenceStrengthScale and s = strength/100.
C1_Step ==
  [][(entry = "evaluations" /\ pc = "fold" /\ idx' = idx + 1
        /\ ~config.applyCorrelationAdjustment)
     => LET e == evaluations[idx + 1]
        IN IF e.supportsDecision
           THEN /\ (alpha' - alpha) * (1000000 \div U) = SupportShare(e)
                /\ (beta' - beta) * (1000000 \div U) = RestShare(e)
           ELSE /\ (beta' - beta) * (1000000 \div U) = SupportShare(e)
                /\ (alpha' - alpha) * (1000000 \div U) = RestShare(e)]_vars

\* C1 (instance): prior 50, concentration 10, scale 5 and the single
\* evaluation (supports, strength 100, confidence 100, importance 100)
\* aggregate to alpha = 10, beta = 5.
C1_Instance ==
  (/\ entry = "evaluations" /\ Folded
   /\ prior = 50 /\ config.priorConcentration = 10
   /\ config.evidenceStrengthScale = 5 /\ ~config.applyCorrelationAdjustment
   /\ Len(evaluations) = 1
   /\ evaluations[1].supportsDecision
   /\ evaluations[1].strength = 100 /\ evaluations[1].confidence = 100
   /\ ImportanceFor(evaluations[1]) = 100)
  => (alpha = 10 * U /\ beta = 5 * U)

\* C1: the evaluation update rule of calculatePosteriorFromEvaluations
\* (correlation adjustment off) and its worked example, C1_Step and C1_Instance.
C1_Theorem == C1_Step /\ []C1_Instance

C1_Witness ==
  /\ entry = "evaluations" /\ pc = "done" /\ call = "first"
  /\ prior = 50 /\ config = DefaultConfig
  /\ evaluations = << StrongSupport("c1") >>
  /\ alpha = 10 * U /\ beta = 5 * U

\* C2 (step): folding one evidence item adds (value/100)*pseudoCount to alpha
\* and (1 - value/100)*pseudoCount to beta, pseudoCount = (weight/100)*scale.
C2_Step ==
  [][(entry = "evidence" /\ pc = "fold" /\ idx' = idx + 1)
     => LET item == evidence[idx + 1]
        IN /\ (alpha' - alpha) * (10000 \div U)
                = item.value * item.weight * config.evidenceStrengthScale
           /\ (beta' - beta) * (10000 \div U)
                = (100 - item.value) * item.weight * config.evidenceStrengthScale]_vars

\* sum of the pseudo-counts of the first n evidence items, units 1/U
RECURSIVE PseudoCountSum(_)
PseudoCountSum(n) ==
  IF n = 0 THEN 0
  ELSE PseudoCountSum(n - 1)
         + (evidence[n].weight * config.evidenceStrengthScale * U) \div 100

\* C2 (total): after the whole list alpha + beta is alpha0 + beta0 plus the
\* sum of all pseudo-counts.
C2_Total ==
  (entry = "evidence" /\ Folded)
  => alpha + beta = Alpha0 + Beta0 + PseudoCountSum(Len(evidence))

\* C2: the evidence update rule of calculatePosterior and the resulting
\* total alpha + beta, C2_Step and C2_Total.
C2_Theorem == C2_Step /\ []C2_Total

C2_Witness ==
  /\ entry = "evidence" /\ pc = "done"
  /\ Len(evidence) = 2
  /\ evidence[1].value = 30 /\ evidence[2].value = 0
  /\ alpha + beta > Alpha0 + Beta0

\* C3: alpha and beta start at max(0.5, (p/100) c) and max(0.5, (1 - p/100) c);
\* after every update step of either fold both are at least 0.5 and neither
\* has decreased.
C3_Theorem ==
  /\ []((pc \in {"fold", "sample"} /\ idx = 0) => (alpha = Alpha0 /\ beta = Beta0))
  /\ [](pc # "start" => (alpha >= U \div 2 /\ beta >= U \div 2))
  /\ [][(pc = "fold" /\ idx' = idx + 1)
        => (/\ alpha' >= alpha /\ beta' >= beta
            /\ alpha' >= U \div 2 /\ beta' >= U \div 2)]_vars

\* the floor decides alpha0 (0.01 * 10 < 0.5) and two update steps have run
C3_Witness ==
  /\ prior = 1 /\ config.priorConcentration = 10
  /\ pc = "sample" /\ idx = 2
  /\ alpha = U \div 2 /\ beta > Beta0

\* C7: with an empty evidence or evaluation list no update step runs, the
\* sampler is called with exactly (alpha0, beta0), the call returns a result,
\* and the evaluation form returns an empty sensitivityAnalysis.
C7_Theorem ==
  Len(Items) = 0
  => /\ pc # "fold" /\ idx = 0
     /\ pc \in {"sens", "return", "done"}
          => (sampledWith[1] = Alpha0 /\ sampledWith[2] = Beta0)
     /\ pc = "done"
          => /\ result.kind # "none"
             /\ entry = "evaluations"
                  => (result.sensitivityAnalysis = <<>> /\ reducedRuns = <<>>)

C7_Witness ==
  /\ Len(Items) = 0 /\ pc = "done" /\ entry = "evaluations"
  /\ sampledWith = << Alpha0, Beta0, NSamples, config.useQuasiRandom >>
  /\ result.sensitivityAnalysis = <<>>

\* C4: in every returned result credibleInterval[0] <= posterior <=
\* credibleInterval[1], and both interval bounds lie in [0, 100].
C4_Claim ==
  pc = "done"
  => /\ result.credibleInterval[1] <= result.posterior
     /\ result.posterior <= result.credibleInterval[2]
     /\ 0 <= result.credibleInterval[1]
     /\ result.credibleInterval[2] <= 100 * PU

\* C5: a second invocation with identical arguments returns the same result
\* as the first (the arguments are all an invocation can be given).
C5_Claim ==
  (pc = "done" /\ call = "repeat") => result = first.result

\* number of samples above 0.5
WinCount == Cardinality({i \in 1..Len(samples) : samples[i] > 500})

\* C6: for every call of calculatePosteriorFromEvaluations, the empty list
\* included, winPercentage is 100 * (samples > 0.5) / (samples) rounded to the
\* nearest integer: an integer in [0, 100].
C6_Claim ==
  (pc = "done" /\ entry = "evaluations")
  => /\ result.winPercentage % PU = 0
     /\ LET r == result.winPercentage \div PU
        IN /\ r \in 0..100
           /\ 2 * Abs(r * Len(samples) - 100 * WinCount) <= Len(samples)

\* C8: with correlation adjustment off, adding one evaluation (supports,
\* strength 100, confidence 100) to a non-empty evaluation set leaves beta
\* unchanged, does not decrease alpha nor the mean alpha/(alpha+beta), and
\* does not decrease the reported (clamped) posterior.
C8_Claim ==
  (pc = "done" /\ call = "extended")
  => /\ alpha >= first.alpha /\ beta = first.beta
     /\ alpha * first.beta >= first.alpha * beta
     /\ result.posterior >= first.result.posterior

\* two evaluations of equal strength, confidence and importance (and equal
\* correlation multiplier), one supporting and one opposing, were aggregated
SymmetricPair ==
  /\ entry = "evaluations" /\ Folded /\ Len(evaluations) = 2
  /\ evaluations[1].supportsDecision # evaluations[2].supportsDecision
  /\ evaluations[1].strength = evaluations[2].strength
  /\ evaluations[1].confidence = evaluations[2].confidence
  /\ ImportanceFor(evaluations[1]) = ImportanceFor(evaluations[2])
  /\ CorrelationMultiplier(config, correlationGroups, evaluations[1].criterionId)
       = CorrelationMultiplier(config, correlationGroups, evaluations[2].criterionId)

\* C9 as stated: for every prior the symmetric pair cancels, the mean
\* alpha/(alpha+beta) of the aggregated parameters equals alpha0/(alpha0+beta0).
C9_Original ==
  SymmetricPair => alpha * (Alpha0 + Beta0) = Alpha0 * (alpha + beta)

\* C9 (amended): the symmetric pair adds the same amount to alpha and to beta
\* (the pseudo-count, when correlation adjustment is off), so alpha - beta is
\* unchanged; the mean equals the prior mean when alpha0 = beta0, and for a
\* positive pseudo-count and alpha0 # beta0 it moves strictly towards 50%
\* without reaching it.
C9_Theorem ==
  SymmetricPair
  => /\ alpha - Alpha0 = beta - Beta0
     /\ ~config.applyCorrelationAdjustment
          => (alpha - Alpha0) * (10000 \div U)
               = evaluations[1].confidence * ImportanceFor(evaluations[1])
                   * config.evidenceStrengthScale
     /\ Alpha0 = Beta0 => alpha * (Alpha0 + Beta0) = Alpha0 * (alpha + beta)
     /\ (Alpha0 > Beta0 /\ alpha > Alpha0)
          => (alpha * (Alpha0 + Beta0) < Alpha0 * (alpha + beta) /\ alpha > beta)
     /\ (Alpha0 < Beta0 /\ alpha > Alpha0)
          => (alpha * (Alpha0 + Beta0) > Alpha0 * (alpha + beta) /\ alpha < beta)

\* a symmetric pair of strength 30 at prior 90: the mean has left the prior mean
C9_Witness ==
  /\ SymmetricPair /\ pc = "done"
  /\ prior = 90 /\ evaluations[1].strength = 30
  /\ alpha - Alpha0 = beta - Beta0 /\ alpha > Alpha0
  /\ alpha * (Alpha0 + Beta0) < Alpha0 * (alpha + beta)

\* the list without its n-th element
RemoveAt(s, n) == SubSeq(s, 1, n - 1) \o SubSeq(s, n + 1, Len(s))

\* C10: the reduced run for item i aggregates exactly the other k-1
\* evaluations, also when two evaluations carry the same criterionId.
C10_Claim ==
  \A k \in 1..Len(reducedRuns) :
    reducedRuns[k].evaluations = RemoveAt(evaluations, reducedRuns[k].item)

\* calculatePosteriorFromEvaluations has returned for two or more evaluations
ReturnedWithSensitivity ==
  pc = "done" /\ entry = "evaluations" /\ Len(evaluations) > 1

\* number of occurrences of x in the sequence s
Occurrences(s, x) == Cardinality({i \in 1..Len(s) : s[i] = x})

\* t (tenths of a percent) is Math.round(10 * d) / 10 for the difference d,
\* given in units 1/PU percent: t - 1/2 <= 10 d < t + 1/2
IsRoundedImpact(t, d) ==
  /\ 2 * t * NSamples - NSamples <= 2 * d
  /\ 2 * d < 2 * t * NSamples + NSamples

C12_Theorem ==
  (pc = "done" /\ entry = "evaluations")
  => Len(result.sensitivityAnalysis)
       = IF Len(evaluations) >= 2 THEN Len(evaluations) ELSE 0

\* two evaluations of the same criterion, with equal |impact|, both listed
C12_Witness ==
  /\ ReturnedWithSensitivity
  /\ evaluations[1].criterionId = evaluations[2].criterionId
  /\ Len(result.sensitivityAnalysis) = Len(evaluations)
  /\ Abs(result.sensitivityAnalysis[1].impact) = Abs(result.sensitivityAnalysis[2].impact)

\* C13: the returned sensitivity list is ordered by non-increasing |impact|.
C13_Theorem ==
  (pc = "done" /\ entry = "evaluations")
  => \A k \in 1..(Len(result.sensitivityAnalysis) - 1) :
       Abs(result.sensitivityAnalysis[k].impact)
         >= Abs(result.sensitivityAnalysis[k + 1].impact)

\* the map produced the items in the other order: the sort moved them
C13_Witness ==
  /\ ReturnedWithSensitivity
  /\ Abs(sensitivity[1].impact) < Abs(sensitivity[2].impact)
  /\ sensitivity[2].impact < 0
  /\ result.sensitivityAnalysis[1] = sensitivity[2]

\* the correlation groups that list the id
GroupsListing(id) ==
  {k \in 1..Len(correlationGroups) :
     \E j \in 1..Len(correlationGroups[k].ids) : correlationGroups[k].ids[j] = id}

C15_Claim ==
  [][(entry = "evidence" /\ pc = "fold" /\ idx' = idx + 1
        /\ config.applyCorrelationAdjustment)
     => LET item == evidence[idx + 1]
            base == item.weight * config.evidenceStrengthScale
            grown == ((alpha' - alpha) + (beta' - beta)) * (100 \div (U \div 10))
        IN \A k \in GroupsListing(item.id) :
             LET n == Len(correlationGroups[k].ids)
                 r == correlationGroups[k].correlationFactor
             IN grown * 100 * n = base * 10 * (100 + (n - 1) * (100 - r))]_vars

\* C16: the number of samples drawn and returned is config.sampleCount when
\* it is given, and the default number otherwise.
C16_Claim ==
  LET expected == IF config.sampleCount # 0 THEN config.sampleCount ELSE NSamples
  IN /\ pc \in {"sens", "return", "done"} => Len(samples) = expected
     /\ pc = "done" => Len(result.samples) = expected

Diagnosed == pc = "diagnosed"

AllEqual(s) == \A i, j \in 1..Len(s) : s[i] = s[j]

\* C17: for n >= 10, computeEffectiveSampleSize returns a finite integer
\* >= 1 (the divisor 1 + 2*rho is never zero); for n < 10 it returns n.
C17_Claim ==
  Diagnosed =>
    /\ result.effectiveSampleSize.kind = "finite"
    /\ Len(samples) >= 10 => result.effectiveSampleSize.value >= 1
    /\ Len(samples) < 10 => result.effectiveSampleSize.value = Len(samples)

\* C18: for every sample sequence computeGewekeDiagnostic returns 0 where z
\* is NaN, which it is for a zero-variance sequence and for a sequence too
\* short to fill the first-10% segment; the reported gewekeZScore is never
\* NaN.
C18_Theorem ==
  Diagnosed =>
    /\ result.gewekeZ.kind # "NaN"
    /\ result.gewekeZScore.kind # "NaN"
    /\ (GewekeZ(samples).kind = "NaN" \/ Len(samples) < 10 \/ AllEqual(samples))
         => /\ result.gewekeZ = [kind |-> "finite", sign |-> 0, num |-> 0, den |-> 1]
            /\ result.gewekeZScore = Finite(0)

\* a constant sequence of ten samples has been diagnosed
C18_Witness ==
  /\ Diagnosed /\ Len(samples) = 10 /\ AllEqual(samples)
  /\ GewekeZ(samples).kind = "NaN"
  /\ result.gewekeZScore = Finite(0)

StrictlyInside(x) == 0 < x.num /\ x.num < x.den

\* C19: in the extreme regime of sampleBetaStable every sample is strictly
\* inside (0,1): the rejection loop never accepts a proposal x <= 0 or
\* x >= 1, and the mode used as last-resort value is strictly inside (0,1).
C19_Theorem ==
  ~Moderate(alpha, beta) =>
    /\ \A i \in 1..Len(samples) : StrictlyInside(samples[i])
    /\ StrictlyInside(Mode(alpha, beta))

\* Beta(2000, 0.5): the loop ran out of attempts and the mode 0.99 was used
C19_Witness ==
  /\ pc = "sampled" /\ alpha = 2000 * U /\ beta = U \div 2
  /\ attempts = DrawCount * ATTEMPTS_PER_SAMPLE
  /\ \E i \in 1..Len(samples) : samples[i] = [num |-> 99, den |-> 100]

Unmatched(e) == \A k \in 1..Len(criteria) : criteria[k].id # e.criterionId

\* sum over the list of confidence * importance * scale (units 1/U), with the
\* importance 50 for an unmatched criterionId, each term times the
\* correlation multiplier when adjusted
RECURSIVE PseudoCounts(_, _)
PseudoCounts(evals, adjusted) ==
  IF evals = <<>> THEN 0
  ELSE LET e == Head(evals)
           p == (e.confidence * (IF Unmatched(e) THEN 50 ELSE ImportanceFor(e))
                   * config.evidenceStrengthScale * U) \div 10000
           m == IF adjusted
                THEN CorrelationMultiplier(config, correlationGroups, e.criterionId)
                ELSE [num |-> 1, den |-> 1]
       IN (p * m.num) \div m.den + PseudoCounts(Tail(evals), adjusted)

\* C20: an evaluation whose criterionId matches no criterion is weighted with
\* importance 50 by the full pipeline and by every leave-one-out run, the
\* other evaluations keep their own importance, and the call runs to its
\* return.
C20_Theorem ==
  entry = "evaluations" =>
    /\ Folded => alpha + beta = Alpha0 + Beta0 + PseudoCounts(evaluations, TRUE)
    /\ \A k \in 1..Len(reducedRuns) :
         reducedRuns[k].alpha + reducedRuns[k].beta
           = Alpha0 + Beta0 + PseudoCounts(reducedRuns[k].evaluations, FALSE)
    /\ pc # "done" => ENABLED Next
    /\ pc = "done" =>
         /\ result.kind = "EvaluationPosteriorResult"
         /\ \A k \in 1..Len(result.sensitivityAnalysis) :
              LET item == result.sensitivityAnalysis[k]
              IN (\A j \in 1..Len(criteria) : criteria[j].id # item.criterionId)
                   => item.criterionName = "Unknown"

\* a call with an evaluation of the unknown criterion zz and one of c1 has
\* returned, with a leave-one-out run that kept the zz evaluation
C20_Witness ==
  /\ ReturnedWithSensitivity
  /\ Unmatched(evaluations[1]) /\ ~Unmatched(evaluations[2])
  /\ \E k \in 1..Len(reducedRuns) :
       /\ Len(reducedRuns[k].evaluations) = 1
       /\ Unmatched(reducedRuns[k].evaluations[1])
  /\ \E k \in 1..Len(result.sensitivityAnalysis) :
       result.sensitivityAnalysis[k].criterionName = "Unknown"

\* C21 (safety): the rejection loop makes at most 100*n attempts, a fallback
\* iteration is taken only after them and adds exactly one sample, a direct
\* draw or the mode, and what is returned has exactly n samples.
C21_Safety ==
  /\ attempts <= DrawCount * ATTEMPTS_PER_SAMPLE
  /\ Len(samples) <= DrawCount
  /\ pc = "sampled" => Len(samples) = DrawCount

C21_Fallback ==
  [][(~Moderate(alpha, beta) /\ attempts' = attempts /\ samples' # samples)
       => /\ attempts = DrawCount * ATTEMPTS_PER_SAMPLE
          /\ \E x \in LibraryDraws \cup {Mode(alpha, beta)} :
               samples' = Append(samples, x)]_vars

\* C21: sampleBetaStable always terminates and returns exactly n samples,
\* after at most 100*n attempts of the rejection loop and fallback
\* iterations that each add one sample.
C21_Theorem == []C21_Safety /\ C21_Fallback /\ <>(pc = "sampled")

\* Beta(0.5, 2000): one proposal was accepted, the attempts ran out and the
\* last sample is the mode 0.01
C21_Witness ==
  /\ pc = "sampled" /\ alpha = U \div 2 /\ beta = 2000 * U
  /\ attempts = DrawCount * ATTEMPTS_PER_SAMPLE
  /\ Len(samples) = DrawCount
  /\ samples[1] = PerMille(995)
  /\ samples[DrawCount] = [num |-> 1, den |-> 100]

\* the reported gewekeZScore (hundredths) is below 1.96 in absolute value
ReportedBelowThreshold ==
  result.gewekeZScore.kind = "finite" /\ Abs(result.gewekeZScore.value) < 196

\* the z returned by computeGewekeDiagnostic is below 1.96 in absolute value:
\* z*z < 3.8416 = 2401/625
UnroundedBelowThreshold ==
  LET z == computeGewekeDiagnostic(samples)
  IN z.kind = "finite" /\ 625 * z.num < 2401 * z.den

\* C22 as stated: isConverged is true exactly when the reported gewekeZScore
\* of the same diagnostic is below 1.96 in absolute value.
C22_Original == Diagnosed => (result.isConverged <=> ReportedBelowThreshold)

\* C22: isConverged is true exactly when the unrounded z is below 1.96 in
\* absolute value; a reported gewekeZScore below 1.96 implies isConverged,
\* and isConverged implies a reported score of at most 1.96.
C22_Theorem ==
  Diagnosed =>
    /\ result.isConverged <=> UnroundedBelowThreshold
    /\ ReportedBelowThreshold => result.isConverged
    /\ result.isConverged => Abs(result.gewekeZScore.value) <= 196

\* z = -1.9596 (z*z = 96/25): converged, and reported as -1.96
C22_Witness ==
  /\ Diagnosed /\ result.isConverged
  /\ result.gewekeZ.num * 25 = result.gewekeZ.den * 96
  /\ result.gewekeZScore = Finite(-196)

\* what the list adds to alpha and to beta (units 1/U): per evaluation the
\* shares s*pseudoCount and (1-s)*pseudoCount, each times the correlation
\* multiplier of its criterionId when adjusted
RECURSIVE Shares(_, _)
Shares(evals, adjusted) ==
  IF evals = <<>> THEN [alpha |-> 0, beta |-> 0]
  ELSE LET e == Head(evals)
           m == IF adjusted
                THEN CorrelationMultiplier(config, correlationGroups, e.criterionId)
                ELSE [num |-> 1, den |-> 1]
           with == ((SupportShare(e) \div (1000000 \div U)) * m.num) \div m.den
           rest == ((RestShare(e) \div (1000000 \div U)) * m.num) \div m.den
           more == Shares(Tail(evals), adjusted)
       IN IF e.supportsDecision
          THEN [alpha |-> with + more.alpha, beta |-> rest + more.beta]
          ELSE [alpha |-> rest + more.alpha, beta |-> with + more.beta]

\* C23: every leave-one-out run aggregates its evaluations with multiplier
\* 1, also when applyCorrelationAdjustment is on and groups are declared,
\* while the full posterior was aggregated with the correlation multipliers.
C23_Theorem ==
  (entry = "evaluations" /\ pc \in {"sens", "return", "done"}) =>
    /\ alpha = Alpha0 + Shares(evaluations, TRUE).alpha
    /\ beta = Beta0 + Shares(evaluations, TRUE).beta
    /\ \A k \in 1..Len(reducedRuns) :
         /\ reducedRuns[k].alpha
              = Alpha0 + Shares(reducedRuns[k].evaluations, FALSE).alpha
         /\ reducedRuns[k].beta
              = Beta0 + Shares(reducedRuns[k].evaluations, FALSE).beta

\* adjustment on: the full run counted the c1 evaluation at 3/4, the reduced
\* run that keeps only that evaluation counted it in full
C23_Witness ==
  /\ ReturnedWithSensitivity /\ config.applyCorrelationAdjustment
  /\ evaluations[1].criterionId = "c1" /\ evaluations[2].criterionId = "c2"
  /\ \E k \in 1..Len(reducedRuns) :
       /\ reducedRuns[k].evaluations = << evaluations[1] >>
       /\ Shares(<< evaluations[1] >>, TRUE) # Shares(<< evaluations[1] >>, FALSE)
       /\ reducedRuns[k].alpha = Alpha0 + Shares(<< evaluations[1] >>, FALSE).alpha
       /\ reducedRuns[k].beta = Beta0 + Shares(<< evaluations[1] >>, FALSE).beta

\* the wizard shows the outcome of the analysis
ShowsOutcome == step \in {"results", "experiments"}

\* the positions of the evaluations of the decision state that refer to criterion c
EvaluationsOf(c) ==
  { k \in 1..Len(decisionState.criteriaEvaluations) :
      decisionState.criteriaEvaluations[k].criterionId = c.id }

\* C24: whatever wizard actions were taken (submit decision, add / remove
\* criteria, submit criteria, submit evaluations, back, reset, load a saved
\* decision), on the 'results' and 'experiments' steps every evaluation of
\* the decision state refers to the id of a criterion of the decision state,
\* and every criterion has exactly one evaluation.
C24_Theorem ==
  ShowsOutcome =>
    /\ \A k \in 1..Len(decisionState.criteriaEvaluations) :
         \E j \in 1..Len(decisionState.criteria) :
           decisionState.criteria[j].id = decisionState.criteriaEvaluations[k].criterionId
    /\ \A j \in 1..Len(decisionState.criteria) :
         Cardinality(EvaluationsOf(decisionState.criteria[j])) = 1

\* the outcome is shown for a loaded decision that had an evaluation for its
\* second criterion only and got a third criterion in the wizard
C24_Witness ==
  /\ step = "experiments"
  /\ Len(decisionState.criteria) = 3
  /\ decisionState.criteria[1].id = RowId(1)
  /\ decisionState.criteria[3].id = Uuid(1)
  /\ decisionState.criteriaEvaluations[1] = DefaultEvaluation(decisionState.criteria[1])
  /\ decisionState.criteriaEvaluations[2].criterionId = RowId(2)

\* C25: when the wizard advances from 'evaluation' into 'simulating', the
\* posterior stored in the decision state (with its credible interval and
\* convergence diagnostic) is calculated from the evaluations just submitted:
\* from the same prior, evaluations and criteria the results step uses.
C25_Claim ==
  [][(step = "evaluation" /\ step' = "simulating")
       => decisionState'.posterior = PosteriorOfEvaluations(decisionState')]_vars

\* C28: from the 'results' step the Back action ('Adjust evaluations') brings
\* the wizard to the 'evaluation' step, where the evaluations can be edited.
C28_Claim ==
  [][(step = "results" /\ event' = "onBack") => step' = "evaluation"]_vars

\* C26: CalculationsPane reproduces the engine's calculation: the final alpha
\* and beta it displays equal the alpha and beta that
\* calculatePosteriorFromEvaluations aggregates with the default config for
\* the same prior, criteria and evaluations.
C26_Claim ==
  (entry = "evaluations" /\ config = DefaultConfig /\ Folded)
    => CalculationsPane(prior, criteria, evaluations) = [alpha |-> alpha, beta |-> beta]

\* the rows of a table that belong to the decision the last saveDecision call inserted
RowsOfCall(table) == SelectSeq(table, LAMBDA r : r.decision_id = savePc.decisionId)

\* C27: saveDecision is all-or-nothing.  When it returns null (no signed-in
\* user, or a failed insert of the decision, of a criterion or of an
\* evaluation), no decision, criterion or evaluation row of that call remains
\* stored; when it returns an id, the decision row and all its criteria and
\* evaluations are stored; in every outcome the saving flag is false afterwards.
C27_Claim ==
  savePc.at = "returned" =>
    /\ saving = FALSE
    /\ returned = Null =>
         /\ \A k \in 1..Len(db.decisions) : db.decisions[k].id # savePc.decisionId
         /\ RowsOfCall(db.decision_criteria) = <<>>
         /\ RowsOfCall(db.decision_evaluations) = <<>>
    /\ returned # Null =>
         /\ \E k \in 1..Len(db.decisions) : db.decisions[k].id = returned
         /\ Len(RowsOfCall(db.decision_criteria)) = Len(saveArgs.state.criteria)
         /\ Len(RowsOfCall(db.decision_evaluations)) = Len(saveArgs.state.criteriaEvaluations)

\* the stored row of a decision loadDecisions returned
RowOf(savedDecision) ==
  db.decisions[CHOOSE k \in 1..Len(db.decisions) : db.decisions[k].id = savedDecision.id]

\* C29: save / load round trip.  For every decision stored with non-null
\* win_percentage, posterior_probability and credible interval bounds, the
\* value 0 included, loadDecisions returns those same numbers rather than
\* null, so a win rate of 0 is not reported as an incomplete analysis.
C29_Claim ==
  loaded # NoResult =>
    \A k \in 1..Len(loaded.decisions) :
      LET savedDecision == loaded.decisions[k]
          d == RowOf(savedDecision)
      IN /\ d.win_percentage # Null => savedDecision.winPercentage = d.win_percentage
         /\ d.posterior_probability # Null
              => savedDecision.posteriorProbability = d.posterior_probability
         /\ d.credible_interval_low # Null
              => savedDecision.credibleIntervalLow = d.credible_interval_low
         /\ d.credible_interval_high # Null
              => savedDecision.credibleIntervalHigh = d.credible_interval_high

\* the fold over the list has just finished: alpha and beta are the aggregate
FoldEnds == pc = "sample"

\* C30 as stated: any permutation of the same evidence items (calculatePosterior)
\* or of the same evaluations (calculatePosteriorFromEvaluations) yields the
\* same aggregated (alpha, beta) as the code computes them, and the input
\* lists, criteria and config are left unmodified.
C30_Original ==
  /\ [](FoldEnds => \A s \in Reorderings(GivenList) : FlAggregate(s) = FlAggregate(GivenList))
  /\ [][inputs' = inputs]_vars

\* the two results are within n units in the last place of each other
WithinUlps(x, y, n) == Abs(x - y) <= n * UlpOf(Max(x, y))

\* C30 (amended): the aggregation is order-independent in exact arithmetic:
\* every permutation of the list yields the (alpha, beta) the call aggregated.
\* In the floating-point arithmetic of the code the sums of two orders
\* agree except for rounding: they differ by at most one unit in the last
\* place per list item.  The inputs, criteria and config are left unmodified.
C30_Theorem ==
  /\ [](FoldEnds =>
          \A s \in Reorderings(GivenList) :
            /\ ExactAggregate(s) = [alpha |-> alpha, beta |-> beta]
            /\ WithinUlps(FlAggregate(s).alpha, FlAggregate(GivenList).alpha, Len(GivenList))
            /\ WithinUlps(FlAggregate(s).beta, FlAggregate(GivenList).beta, Len(GivenList)))
  /\ [][inputs' = inputs]_vars

\* a fold over two items has finished whose floating-point sums depend on the order
C30_Witness ==
  /\ FoldEnds /\ Len(GivenList) = 2
  /\ \E s \in Reorderings(GivenList) : FlAggregate(s) # FlAggregate(GivenList)

====
